---- MODULE Spec2Model ----
(***************************************************************************)
(* A model of datalad's clone plumbing (datalad/core/distributed/clone.py): *)
(* Clone.__call__, clone_dataset and the post-clone reconciliation steps.   *)
(*                                                                          *)
(* Text is modelled by TLA+ strings, read character by character with      *)
(* SubSeq.  An optional value (Python's None or a value) is a sequence of   *)
(* length 0 or 1.                                                           *)
(***************************************************************************)
EXTENDS Integers, Sequences, FiniteSets, TLC

(***************************************************************************)
(* Bounds of the model.                                                     *)
(***************************************************************************)
\* the longest list of source specifications handed to clone_dataset
MaxSrcs == 2
\* the most records the subdataset registration (ds.save) emits
MaxSaveRecords == 1
\* the deepest level the ancestor-origin walk is followed to
MaxDepth == 3
\* the same, where the walk is looked at alone
MaxWalk == 5
\* the most times postclonecfg_annexdataset is applied to one clone
MaxApply == 2

(***************************************************************************)
(* Text helpers (Python str methods).                                       *)
(***************************************************************************)
None == <<>>
Some(v) == <<v>>

Ch(s, i) == SubSeq(s, i, i)

StartsWith(s, p) == Len(s) >= Len(p) /\ SubSeq(s, 1, Len(p)) = p

EndsWith(s, p) == Len(s) >= Len(p) /\ SubSeq(s, Len(s) - Len(p) + 1, Len(s)) = p

\* str.find, 1-based; 0 when p does not occur in s
Find(s, p) ==
    LET I == {i \in 1..(Len(s) - Len(p) + 1) : SubSeq(s, i, i + Len(p) - 1) = p}
    IN  IF I = {} THEN 0 ELSE CHOOSE i \in I : \A j \in I : i <= j

\* str.rfind, 1-based; 0 when p does not occur in s
RFind(s, p) ==
    LET I == {i \in 1..(Len(s) - Len(p) + 1) : SubSeq(s, i, i + Len(p) - 1) = p}
    IN  IF I = {} THEN 0 ELSE CHOOSE i \in I : \A j \in I : j <= i

Contains(s, p) == Find(s, p) > 0

\* s[n:] for n counted from 0
From(s, n) == SubSeq(s, n + 1, Len(s))

\* s[:n]
UpTo(s, n) == SubSeq(s, 1, n)

\* str.rstrip('/')
RECURSIVE RStripSlash(_)
RStripSlash(s) == IF EndsWith(s, "/") THEN RStripSlash(UpTo(s, Len(s) - 1)) ELSE s

\* s.split(sep, maxsplit=1)[0]
SplitFirst(s, sep) == IF Contains(s, sep) THEN UpTo(s, Find(s, sep) - 1) ELSE s

\* s.split(sep, maxsplit=1)[1], for s that holds sep
SplitRest(s, sep) == From(s, Find(s, sep) + Len(sep) - 1)

\* s.split('/')[-1]
LastSegment(s) == From(s, RFind(s, "/"))

\* s.split('/')[-2], for s that holds '/'
PrevSegment(s) == LastSegment(UpTo(s, RFind(s, "/") - 1))

HexDigits == {"0", "1", "2", "3", "4", "5", "6", "7", "8", "9",
              "a", "b", "c", "d", "e", "f"}

(***************************************************************************)
(* Resource identifiers (datalad.support.network: RI, URL, PathRI,          *)
(* DataLadRI), the standard library's path helpers, and the configuration's *)
(* URL rewriting.  The input texts of this model hold no query, no user,    *)
(* no port and no percent-escape.                                           *)
(***************************************************************************)
\* the home directory of the user and the working directory of the process
HomeDir == "/h"
CurDir == "/w"
\* datalad.consts.DATASETS_TOPURL
DATASETS_TOPURL == "http://datasets.datalad.org/"

NotInScheme == {"/", "#", "?", "@", "~", ":", " "}

\* the length of the scheme urlparse finds in s, 0 when there is none
SchemeLen(s) ==
    IF Find(s, ":") > 1 /\ \A k \in 1..(Find(s, ":") - 1) : Ch(s, k) \notin NotInScheme
    THEN Find(s, ":") - 1 ELSE 0

\* the end of the network location: the first '/' or '#' of r, or its end
NetlocEnd(r) ==
    IF \E k \in 1..Len(r) : Ch(r, k) \in {"/", "#"}
    THEN CHOOSE k \in 1..Len(r) :
           /\ Ch(r, k) \in {"/", "#"}
           /\ \A m \in 1..(k - 1) : Ch(r, m) \notin {"/", "#"}
    ELSE Len(r) + 1

URLParts(scheme, hostname, tail) ==
    [scheme   |-> scheme,
     hostname |-> hostname,
     path     |-> SplitFirst(tail, "#"),
     fragment |-> IF Contains(tail, "#") THEN SplitRest(tail, "#") ELSE ""]

URLAfterScheme(scheme, rest) ==
    IF StartsWith(rest, "//")
    THEN URLParts(scheme, UpTo(From(rest, 2), NetlocEnd(From(rest, 2)) - 1),
                  From(rest, 1 + NetlocEnd(From(rest, 2))))
    ELSE URLParts(scheme, "", rest)

\* urllib.parse.urlparse, as used by URL._str_to_fields
URLFields(s) ==
    IF SchemeLen(s) > 0
    THEN URLAfterScheme(UpTo(s, SchemeLen(s)), From(s, SchemeLen(s) + 1))
    ELSE URLAfterScheme("", s)

UsesNetloc == {"file", "http", "https", "ssh", "git", "ftp"}

\* URL.as_str: urllib.parse.urlunparse of the fields
URLAsStr(f) ==
    (IF f.scheme # "" THEN f.scheme \o ":" ELSE "")
    \o (IF f.hostname # "" \/ (f.scheme \in UsesNetloc /\ ~StartsWith(f.path, "//"))
        THEN "//" \o f.hostname \o (IF f.path # "" /\ ~StartsWith(f.path, "/") THEN "/" ELSE "")
        ELSE "")
    \o f.path
    \o (IF f.fragment # "" THEN "#" \o f.fragment ELSE "")

RIKindOf(s, f) ==
    IF f.scheme # "" /\ f.scheme # "file" /\ f.hostname = "" /\ ~Contains(f.scheme, "+")
    THEN "ssh"
    ELSE IF f.scheme = "" /\ f.hostname = ""
    THEN IF Contains(f.path, "@") \/ Contains(s, ":") THEN "ssh"
         ELSE IF StartsWith(s, "//") THEN "dataladri"
         ELSE "path"
    ELSE "url"

\* datalad.support.network._guess_ri_cls: the class RI(s) turns out to be
RIKind(s) == RIKindOf(s, URLFields(s))

\* DataLadRI.as_git_url
as_git_url(s) == DATASETS_TOPURL \o From(s, 3)

\* pathlib's parsing of a path text without its root: repeated separators,
\* '.' components and a trailing separator are dropped
RECURSIVE PathNorm(_)
PathNorm(s) ==
    IF Contains(s, "//") THEN PathNorm(UpTo(s, Find(s, "//")) \o From(s, Find(s, "//") + 1))
    ELSE IF Contains(s, "/./") THEN PathNorm(UpTo(s, Find(s, "/./")) \o From(s, Find(s, "/./") + 2))
    ELSE IF StartsWith(s, "./") THEN PathNorm(From(s, 2))
    ELSE IF EndsWith(s, "/.") THEN PathNorm(UpTo(s, Len(s) - 1))
    ELSE IF Len(s) > 1 /\ EndsWith(s, "/") THEN PathNorm(UpTo(s, Len(s) - 1))
    ELSE s

\* str(pathlib.Path(s)) on POSIX; exactly two leading separators are kept
PathStr(s) ==
    IF s = "" \/ s = "." THEN "."
    ELSE IF StartsWith(s, "//") /\ ~StartsWith(s, "///")
    THEN (IF PathNorm(From(s, 1)) = "/" THEN "//" ELSE "/" \o PathNorm(From(s, 1)))
    ELSE PathNorm(s)

LastPartOf(p) == IF Contains(p, "/") /\ Len(LastSegment(p)) > 0 THEN LastSegment(p) ELSE p

\* pathlib.Path(s).parts[-1]
PathLastPart(s) == LastPartOf(PathStr(s))

\* os.path.expanduser on POSIX, for the one user of the model
expanduser(s) ==
    IF s = "~" \/ StartsWith(s, "~/") THEN RStripSlash(HomeDir) \o From(s, 1) ELSE s

\* the local path of a text that is a path or a file:// URL (RI.localpath)
LocalPath(s) == IF RIKind(s) = "url" THEN URLFields(s).path ELSE s

\* pathlib.Path(p).absolute() of a normalised path text
PathAbsolute(p) ==
    IF StartsWith(p, "/") THEN p
    ELSE IF p = "." THEN CurDir
    ELSE CurDir \o "/" \o p

\* datalad.support.network.get_local_file_url(s, compatibility='git') on POSIX
get_local_file_url(s) == "file://" \o PathAbsolute(PathStr(s))

\* ConfigManager.rewrite_url: the longest matching url.<base>.insteadOf rule
\* replaces the matched prefix by its base; rules is a set of
\* [base, insteadOf] records
rule_matches(rules, url) == {r \in rules : StartsWith(url, r.insteadOf)}

longest_rules(M) == {r \in M : \A q \in M : Len(q.insteadOf) <= Len(r.insteadOf)}

apply_rule(L, url) ==
    IF Cardinality(L) = 1
    THEN (CHOOSE r \in L : TRUE).base \o From(url, Len((CHOOSE r \in L : TRUE).insteadOf))
    ELSE url

rewrite_url(rules, url) == apply_rule(longest_rules(rule_matches(rules, url)), url)

(***************************************************************************)
(* decode_source_spec and its helpers.                                      *)
(***************************************************************************)
\* re.match(uuid_regex, dsid): the pattern has no end anchor
MatchesUUID(dsid) ==
    /\ Len(dsid) >= 36
    /\ \A k \in 1..36 : IF k \in {9, 14, 19, 24} THEN Ch(dsid, k) = "-"
                                                 ELSE Ch(dsid, k) \in HexDigits

\* the character a percent escape stands for, for the escapes of the inputs
unescape(xx) == IF xx = "20" THEN " " ELSE IF xx \in {"2F", "2f"} THEN "/" ELSE ""

\* urllib.parse.unquote
RECURSIVE urlunquote(_)
urlunquote(s) ==
    IF s = "" THEN ""
    ELSE IF Ch(s, 1) = "%" /\ Len(s) >= 3 /\ unescape(SubSeq(s, 2, 3)) # ""
    THEN unescape(SubSeq(s, 2, 3)) \o urlunquote(From(s, 3))
    ELSE Ch(s, 1) \o urlunquote(From(s, 1))

\* the unquoted path of a URL or DataLadRI without trailing separators, or the host
installpath_base(url, kind, f) ==
    IF RStripSlash(IF kind = "dataladri" THEN From(url, 3) ELSE f.path) # ""
    THEN urlunquote(RStripSlash(IF kind = "dataladri" THEN From(url, 3) ELSE f.path))
    ELSE f.hostname

\* the last segment, whatever it is
installpath_segment_Last(p) == IF Contains(p, "/") THEN LastSegment(p) ELSE p

installpath_segment(p) ==
    IF Contains(p, "/")
    THEN IF LastSegment(p) = ".git" THEN PrevSegment(p) ELSE LastSegment(p)
    ELSE p

strip_git_suffix(path) == IF EndsWith(path, ".git") THEN UpTo(path, Len(path) - 4) ELSE path

installpath_of(url, kind) ==
    IF kind \in {"url", "dataladri"}
    THEN installpath_segment(installpath_base(url, kind, URLFields(url)))
    ELSE PathLastPart(url)

get_installationpath_from_url(url) == strip_git_suffix(installpath_of(url, RIKind(url)))

is_ria(spec, f) == RIKindOf(spec, f) = "url" /\ StartsWith(f.scheme, "ria+")

\* the dataset ID and the version of a RIA fragment
ria_dsid(fragment) == SplitFirst(fragment, "@")
ria_version(fragment) == IF Contains(fragment, "@") THEN Some(SplitRest(fragment, "@")) ELSE None

ria_valid(dsid) == MatchesUUID(dsid) \/ StartsWith(dsid, "~")

\* a trace that splits the UUID after two characters
ria_trace_Two(dsid) ==
    IF MatchesUUID(dsid) THEN UpTo(dsid, 2) \o "/" \o From(dsid, 2)
    ELSE "alias/" \o From(dsid, 1)

ria_trace(dsid) ==
    IF MatchesUUID(dsid) THEN UpTo(dsid, 3) \o "/" \o From(dsid, 3)
    ELSE "alias/" \o From(dsid, 1)

\* a destination that keeps the '~' of the alias
ria_destpath_Tilde(dsid) == dsid

ria_destpath(dsid) == IF MatchesUUID(dsid) THEN dsid ELSE From(dsid, 1)

ria_giturl(f, trace) ==
    URLAsStr([scheme   |-> From(f.scheme, 4),
              hostname |-> f.hostname,
              path     |-> f.path \o (IF f.path = "" \/ EndsWith(f.path, "/") THEN "" ELSE "/")
                           \o trace,
              fragment |-> ""])

decode_raises_for(spec, f) == is_ria(spec, f) /\ ~ria_valid(ria_dsid(f.fragment))

\* whether decode_source_spec raises ValueError for the specification
decode_raises(rules, spec0) ==
    decode_raises_for(rewrite_url(rules, spec0), URLFields(rewrite_url(rules, spec0)))

decode_props(spec0, spec, f) ==
    IF RIKindOf(spec, f) = "dataladri"
    THEN [source |-> spec0, version |-> None, kind |-> "dataladri",
          giturl |-> as_git_url(spec),
          default_destpath |-> get_installationpath_from_url(as_git_url(spec))]
    ELSE IF is_ria(spec, f)
    THEN [source |-> spec0, version |-> ria_version(f.fragment), kind |-> "ria",
          giturl |-> ria_giturl(f, ria_trace(ria_dsid(f.fragment))),
          default_destpath |-> ria_destpath(ria_dsid(f.fragment))]
    ELSE [source |-> spec0, version |-> None, kind |-> "giturl",
          giturl |-> spec,
          default_destpath |-> get_installationpath_from_url(spec)]

\* the properties decode_source_spec returns: 'type' is kept as field kind
decode_source_spec(rules, spec0) ==
    decode_props(spec0, rewrite_url(rules, spec0), URLFields(rewrite_url(rules, spec0)))

\* datalad.distribution.utils._get_flexible_source_candidates without a base
\* URL: the URL itself and, for http(s), the URL with '/.git' appended
get_flexible_source_candidates(src) ==
    IF /\ RIKind(src) = "url"
       /\ URLFields(src).scheme \in {"http", "https"}
       /\ ~EndsWith(RStripSlash(src), "/.git")
    THEN <<src, RStripSlash(src) \o "/.git">>
    ELSE <<src>>

\* the flattened candidate list of clone_dataset: every candidate keeps the
\* properties of its decoded specification and takes one expanded URL
with_urls(props, urls) == [i \in 1..Len(urls) |-> [props EXCEPT !.giturl = urls[i]]]

expand_one(props) == with_urls(props, get_flexible_source_candidates(props.giturl))

RECURSIVE expand_candidates(_, _)
expand_candidates(rules, srcs) ==
    IF srcs = <<>> THEN <<>>
    ELSE expand_one(decode_source_spec(rules, Head(srcs)))
         \o expand_candidates(rules, Tail(srcs))

(***************************************************************************)
(* The inputs of the model.                                                 *)
(***************************************************************************)
\* source specifications: a URL git can handle (expanded to two candidates),
\* a local path in the home directory, an archive-store alias with a version,
\* and an archive-store URL with a malformed fragment
Specs == {"http://h/r", "~/s", "ria+file:///s#~a@v", "ria+http://s#x"}

RECURSIVE SeqsUpTo(_, _)
SeqsUpTo(S, n) ==
    IF n = 0 THEN {<<>>}
    ELSE SeqsUpTo(S, n - 1) \cup
         {Append(q, x) : q \in {r \in SeqsUpTo(S, n - 1) : Len(r) = n - 1}, x \in S}

SrcLists == SeqsUpTo(Specs, MaxSrcs)

\* the url.<base>.insteadOf rules of the configuration
RuleSets == {{}}

\* the risk modes a caller may ask for; LegacyTrue stands for Python's True
LegacyTrue == Some("True")
RecklessModes == {None, Some("auto"), Some("ephemeral"), Some("shared-group")}

\* clone's path argument: none, the text of the source "~/s", given with that
\* source, and another spelling of the location that source resolves to
Paths == {None, Some("~/s"), Some("/h/s")}

\* the destination before the operation: files is what the directory holds
\* ("user": content of the user, ".git": an installed repository, "junk":
\* what a failed transfer left), track is the URL of the tracking remote
TrackURLs == {"", "http://h/r", "/h/s/", "~/s/", "/s/alias/a"}

NoDest == [exists |-> FALSE, files |-> {}, track |-> ""]

InitialDests ==
    {NoDest,
     [exists |-> TRUE, files |-> {}, track |-> ""],
     [exists |-> TRUE, files |-> {"user"}, track |-> ""]}
    \cup {[exists |-> TRUE, files |-> {".git", "user"}, track |-> t] : t \in TrackURLs}

\* the failures (CommandError) a transfer may end with
Failures ==
    {[stdout |-> "", stderr |-> ""],
     [stdout |-> "", stderr |-> "fatal: repository not found\n"],
     [stdout |-> "", stderr |-> "Cloning\nfatal: could not create work tree dir 'd': Permission denied\n"],
     [stdout |-> "", stderr |-> "error: Could Not Create Work Tree\n"]}

\* the special remotes git-annex may know of in a clone
SpecialRemotes ==
    {[uuid |-> "u1", name |-> "store-storage", externaltype |-> "ora"],
     [uuid |-> "u2", name |-> "s3", externaltype |-> "S3"],
     [uuid |-> "u3", name |-> "archive", externaltype |-> "ora"]}

SpecialRemoteSets ==
    {{r \in SpecialRemotes : r.uuid = "u2"},
     {r \in SpecialRemotes : r.uuid \in {"u1", "u2"}}}

\* what a clone knows after the initialisation of the extension: its special
\* remotes and the names of those that were enabled on the way
NoSpecialRemotes == [srs |-> {}, enabled |-> {}]

Worlds ==
    {NoSpecialRemotes}
    \cup {[srs |-> S, enabled |-> {}] : S \in SpecialRemoteSets}
    \cup {[srs |-> {r \in SpecialRemotes : r.uuid \in {"u1", "u2"}},
           enabled |-> {"store-storage"}],
          [srs |-> {r \in SpecialRemotes : r.uuid \in {"u1", "u3"}},
           enabled |-> {"store-storage", "archive"}]}

\* the config file of the repository in the store, as it may be read: not at
\* all (the read fails), empty, without the identifier, and with one
ConfigTexts ==
    {"", "[core]\n\tbare = true\n",
     "[datalad \"ora-remote\"]\n\tuuid = \n",
     "[datalad \"ora-remote\"]\n\tuuid = u1\n",
     "[datalad \"ora-remote\"]\n\tuuid = u2\n",
     "[datalad \"ora-remote\"]\n\tuuid = u9\n"}

Retrievals == {[ok |-> FALSE, text |-> ""]} \cup {[ok |-> TRUE, text |-> t] : t \in ConfigTexts}

\* postclonecfg_ria has not run
\* .git/annex before the reconciliation looked at it; the annex of origin
\* is as origin has it
FreshAnnexDir == [kind |-> "unknown", origin_annex |-> "intact"]

NoRia == [ran |-> FALSE, special_remotes |-> {}, enabled |-> {}, fetch |-> "none",
          config_content |-> "", org_uuid |-> "", ora_remotes |-> {}]

(***************************************************************************)
(* The state.                                                               *)
(***************************************************************************)
VARIABLES
    pc,                 \* the position of the operation
    entry,              \* "clone": Clone.__call__; "clone_dataset": the helper
    srcs,               \* the source specifications
    path_arg,           \* clone's path argument, None when not given
    has_ds,             \* whether clone got a parent dataset
    path_in_ds,         \* whether the target path lies in the parent dataset
    path_ok,            \* whether the platform can handle the target path
    reckless_arg,       \* the risk mode the caller gave
    ds_reckless,        \* datalad.clone.reckless of the parent dataset
    reckless,           \* the risk mode in effect
    rules,              \* the URL rewrite rules of the configuration
    dest,               \* the destination on the file system
    dest0,              \* the destination as it was before the operation
    dest_path_existed,  \* clone_dataset's dest_path_existed
    candidate_sources,  \* clone_dataset's flattened candidate list
    idx,                \* the index of the loop's candidate, cand
    error_msgs,         \* the OrderedDict of failures: a sequence of [url, e]
    source,             \* result_props['source'], None when not set
    records,            \* the result records yielded so far
    attempts,           \* the transfers attempted so far: [url, branch]
    recon,              \* the reconciliation effects so far: <<op, arg, arg>>
    raised,             \* the exception the operation ended with, if any
    label,              \* configure_origins' label
    inherit,            \* datalad.install.inherit-local-origin of the destination
    knows_annex,        \* what knows_annex(ds.path) answered, None before it is asked
    symlink_capability, \* what check_symlink_capability answered, None when not asked
    ria,                \* what postclonecfg_ria found and did, NoRia before it ran
    chain,              \* the local origin URLs configure_origins went down, by depth
    probed_url,         \* the origin_url configure_origins read last, "" before it ran
    annex_dir,          \* .git/annex of the clone, and the annex of origin it may link to
    remotes             \* the remotes of the destination: a sequence of [name, url]

vars == <<pc, entry, srcs, path_arg, has_ds, path_in_ds, path_ok, reckless_arg,
          ds_reckless, reckless, rules,
          dest, dest0, dest_path_existed, candidate_sources, idx, error_msgs,
          source, records, attempts, recon, raised, label, inherit, remotes,
          knows_annex, symlink_capability, ria, chain, probed_url,
          annex_dir>>

inputs == <<entry, srcs, path_arg, has_ds, path_in_ds, path_ok, reckless_arg,
            ds_reckless, rules, dest0>>

Init ==
    /\ pc = "start"
    /\ entry \in {"clone", "clone_dataset"}
    /\ srcs \in SrcLists
    /\ entry = "clone" => Len(srcs) = 1
    /\ path_arg \in IF entry = "clone" THEN {p \in Paths : p = Some("~/s") => srcs[1] = "~/s"}
                   ELSE {None}
    /\ has_ds \in IF entry = "clone" THEN BOOLEAN ELSE {FALSE}
    /\ path_in_ds \in IF has_ds THEN BOOLEAN ELSE {TRUE}
    /\ path_ok \in IF entry = "clone" THEN BOOLEAN ELSE {TRUE}
    /\ reckless_arg \in RecklessModes \cup (IF entry = "clone" THEN {LegacyTrue} ELSE {})
    /\ ds_reckless \in IF has_ds THEN {None, Some("ephemeral")} ELSE {None}
    /\ reckless = reckless_arg
    /\ rules \in RuleSets
    /\ dest \in InitialDests
    /\ dest0 = dest
    /\ dest_path_existed = FALSE
    /\ candidate_sources = <<>>
    /\ idx = 0
    /\ error_msgs = <<>>
    /\ source = None
    /\ records = <<>>
    /\ attempts = <<>>
    /\ recon = <<>>
    /\ raised = None
    /\ label = 0
    /\ inherit = TRUE
    /\ remotes = <<>>
    /\ knows_annex = None
    /\ symlink_capability = None
    /\ ria = NoRia
    /\ chain = <<>>
    /\ probed_url = ""
    /\ annex_dir = FreshAnnexDir

(***************************************************************************)
(* Result records.                                                          *)
(***************************************************************************)
\* a record that leaves result_props out
get_status_dict_Bare(status, text, args, src) ==
    [action |-> "install", status |-> status,
     message |-> [text |-> text, args |-> args], source |-> None]

\* get_status_dict(status=..., message=..., **result_props)
get_status_dict(status, text, args, src) ==
    [action |-> "install", status |-> status,
     message |-> [text |-> text, args |-> args], source |-> src]

\* a record of another command (siblings, save) passed on by the operation
foreign_record(action, status) ==
    [action |-> action, status |-> status,
     message |-> [text |-> "", args |-> <<>>], source |-> None]

Yield(r) == records' = Append(records, r)

\* an exception leaves the operation: exc is its class, at the call it came from
Raise(exc, at) == /\ raised' = Some([exc |-> exc, at |-> at])
                  /\ pc' = "raised"

(***************************************************************************)
(* Clone.__call__ up to the call of clone_dataset.                          *)
(***************************************************************************)
\* a mode of the parent dataset that overrides the mode the caller gave
effective_reckless_Parent(given, with_ds, ds_value) ==
    IF given = LegacyTrue THEN Some("auto")
    ELSE IF with_ds /\ ds_value # None THEN ds_value
    ELSE given

\* lines 213-221: the risk mode clone goes on with
effective_reckless(given, with_ds, ds_value) ==
    IF given = LegacyTrue THEN Some("auto")
    ELSE IF given = None /\ with_ds THEN ds_value
    ELSE given

\* a comparison of the path with the expanded source
identical_Expanded(source_, path) == path # None /\ path[1] = expanduser(source_)

\* line 226: source == path
identical(source_, path) == path = Some(source_)

CloneCall ==
    /\ pc = "start"
    /\ entry = "clone"
    /\ LET source_ == srcs[1]
       IN  /\ reckless' = effective_reckless(reckless_arg, has_ds, ds_reckless)
           /\ IF identical(source_, path_arg)
              THEN Raise("ValueError", "source == path") /\ UNCHANGED records
              ELSE IF path_arg = None /\ decode_raises(rules, source_)
              THEN Raise("ValueError", "decode_source_spec") /\ UNCHANGED records
              ELSE IF ~path_ok
              THEN /\ Yield(get_status_dict("error", "cannot handle target path: %s",
                                            <<"OSError">>, None))
                   /\ pc' = "done"
                   /\ UNCHANGED raised
              ELSE IF has_ds /\ ~path_in_ds
              THEN /\ Yield(get_status_dict("error",
                              "clone target path '%s' not in specified target dataset '%s'",
                              <<>>, None))
                   /\ pc' = "done"
                   /\ UNCHANGED raised
              ELSE /\ pc' = "clone_dataset"
                   /\ UNCHANGED <<records, raised>>
    /\ UNCHANGED <<inputs, dest, dest_path_existed, candidate_sources, idx, error_msgs,
                   source, attempts, recon, label, inherit, remotes>>
    /\ UNCHANGED <<knows_annex, symlink_capability, ria, chain, probed_url,
          annex_dir>>

\* a direct call of the helper clone_dataset
HelperCall ==
    /\ pc = "start"
    /\ entry = "clone_dataset"
    /\ pc' = "clone_dataset"
    /\ UNCHANGED <<inputs, reckless, dest, dest_path_existed, candidate_sources, idx,
                   error_msgs, source, records, attempts, recon, raised, label, inherit, remotes>>
    /\ UNCHANGED <<knows_annex, symlink_capability, ria, chain, probed_url,
          annex_dir>>

(***************************************************************************)
(* clone_dataset: decoding, expansion and the test of the destination.      *)
(***************************************************************************)
\* a test that takes any directory for an installed dataset
is_installed_Exists(d) == d.exists

is_installed(d) == d.exists /\ ".git" \in d.files

\* a 'notneeded' test without the file:// form of the tracking URL
TrackMatches_NoFileURL(track_url, src) ==
    \/ track_url = src
    \/ PathStr(track_url) = expanduser(src)

\* a 'notneeded' test by containment in place of equality
TrackMatches_Within(track_url, src) ==
    \/ Contains(src, track_url)
    \/ Contains(src, get_local_file_url(track_url))
    \/ Contains(expanduser(src), PathStr(track_url))

\* the 'notneeded' test of one candidate URL against the tracking URL
TrackMatches(track_url, src) ==
    \/ track_url = src
    \/ get_local_file_url(track_url) = src
    \/ PathStr(track_url) = expanduser(src)

\* the first candidate the 'notneeded' test accepts, 0 when there is none
FirstMatch(cands, track_url) ==
    LET M == {i \in 1..Len(cands) : TrackMatches(track_url, cands[i].giturl)}
    IN  IF M = {} THEN 0 ELSE CHOOSE i \in M : \A j \in M : i <= j

CloneDatasetBegin ==
    /\ pc = "clone_dataset"
    /\ IF \E i \in 1..Len(srcs) : decode_raises(rules, srcs[i])
       THEN /\ Raise("ValueError", "decode_source_spec")
            /\ UNCHANGED <<candidate_sources, dest_path_existed, idx, records>>
       ELSE LET cands == expand_candidates(rules, srcs)
                m     == FirstMatch(cands, dest.track)
            IN  /\ candidate_sources' = cands
                /\ dest_path_existed' = dest.exists
                /\ UNCHANGED raised
                /\ IF dest.exists /\ dest.files # {}
                   THEN /\ pc' = "cd_done"
                        /\ idx' = idx
                        /\ IF is_installed(dest) /\ m > 0
                           THEN Yield(get_status_dict("notneeded",
                                        "dataset %s was already cloned from '%s'",
                                        <<cands[m].giturl>>, source))
                           ELSE Yield(get_status_dict("error",
                                        "target path already exists and not empty, refuse to clone into target path",
                                        <<>>, source))
                   ELSE /\ pc' = IF cands = <<>> THEN "postloop" ELSE "loop"
                        /\ idx' = 1
                        /\ UNCHANGED records
    /\ UNCHANGED <<inputs, reckless, dest, error_msgs, source, attempts, recon, label,
                   inherit, remotes>>
    /\ UNCHANGED <<knows_annex, symlink_capability, ria, chain, probed_url,
          annex_dir>>

(***************************************************************************)
(* clone_dataset: the attempt loop.                                         *)
(***************************************************************************)
Uppers == "ABCDEFGHIJKLMNOPQRSTUVWXYZ"
Lowers == "abcdefghijklmnopqrstuvwxyz"

\* str.lower
RECURSIVE Lower(_)
Lower(s) ==
    IF s = "" THEN ""
    ELSE (IF Contains(Uppers, Ch(s, 1)) THEN Ch(Lowers, Find(Uppers, Ch(s, 1))) ELSE Ch(s, 1))
         \o Lower(From(s, 1))

Whitespace == {" ", "\n", "\t", "\r"}

\* str.strip
RECURSIVE Strip(_)
Strip(s) ==
    IF s # "" /\ Ch(s, 1) \in Whitespace THEN Strip(From(s, 1))
    ELSE IF s # "" /\ Ch(s, Len(s)) \in Whitespace THEN Strip(UpTo(s, Len(s) - 1))
    ELSE s

\* a test for the fatal failure on e_stderr as it is, not lowered
is_worktree_failure_AsIs(e_stderr) == Contains(e_stderr, "Could not create work tree")

\* 'could not create work tree' in e_stderr.lower()
is_worktree_failure(e_stderr) == Contains(Lower(e_stderr), "could not create work tree")

\* the message of the fatal record: re.match(r".*fatal: (.*)$", e_stderr,
\* MULTILINE | DOTALL) takes the text after the last 'fatal: '
worktree_message(e_stderr) ==
    IF Contains(e_stderr, "fatal: ")
    THEN Strip(From(e_stderr, RFind(e_stderr, "fatal: ") + 6))
    ELSE "stderr: " \o e_stderr

\* error_msgs[url] = e on an OrderedDict: a known key keeps its place
dict_set(d, url, e) ==
    IF \E i \in 1..Len(d) : d[i].url = url
    THEN [i \in 1..Len(d) |-> IF d[i].url = url THEN [url |-> url, e |-> e] ELSE d[i]]
    ELSE Append(d, [url |-> url, e |-> e])

\* clone options that pass whatever version there is, the empty one too
clone_branch_Present(cand) == cand.version

\* the clone options of a candidate: its version as branch, when it has one
clone_branch(cand) ==
    IF cand.version # None /\ cand.version[1] # "" THEN cand.version ELSE None

\* a plain rmtree(dest_path)
wipe_out_Whole(d, children_only) == IF ~d.exists THEN d ELSE NoDest

\* rmtree(dest_path, children_only=dest_path_existed), when dest_path exists
wipe_out(d, children_only) ==
    IF ~d.exists THEN d
    ELSE IF children_only THEN [exists |-> TRUE, files |-> {}, track |-> ""]
    ELSE NoDest

\* what GitRepo.clone records as remote.origin.url: a file:// URL is cloned
\* by its local path
recorded_url(giturl) == IF URLFields(giturl).scheme = "file" THEN LocalPath(giturl) ELSE giturl

\* the first candidate recorded as the winner, whichever succeeded
winner_First(cands, i) == cands[1]

\* result_props['source'] = cand: the candidate recorded as the winner
winner(cands, i) == cands[i]

\* an iteration over the candidates from the last to the first
nth_candidate_Reversed(cands, k) == cands[Len(cands) + 1 - k]

\* for cand in candidate_sources: the candidate of the k-th iteration
nth_candidate(cands, k) == cands[k]

\* one iteration of the loop whose transfer succeeds; GitRepo.clone may
\* return without leaving a valid repository
AttemptSucceeds ==
    /\ pc = "loop"
    /\ LET cand == nth_candidate(candidate_sources, idx)
       IN  /\ attempts' = Append(attempts, [url |-> cand.giturl, branch |-> clone_branch(cand),
                                            failed |-> FALSE])
           /\ \E valid \in BOOLEAN :
                dest' = [exists |-> TRUE,
                         files  |-> IF valid THEN {".git"} ELSE {"junk"},
                         track  |-> IF valid THEN recorded_url(cand.giturl) ELSE ""]
           /\ remotes' = <<[name |-> "origin", url |-> recorded_url(cand.giturl)]>>
           /\ source' = Some(winner(candidate_sources, idx))
           /\ pc' = "postloop"
    /\ UNCHANGED <<inputs, reckless, dest_path_existed, candidate_sources, idx, error_msgs,
                   records, recon, raised, label, inherit>>
    /\ UNCHANGED <<knows_annex, symlink_capability, ria, chain, probed_url,
          annex_dir>>

\* one iteration of the loop whose transfer fails with CommandError e; the
\* failed transfer may leave a partial destination behind
AttemptFails ==
    /\ pc = "loop"
    /\ \E e \in Failures, partial \in BOOLEAN :
         LET cand  == nth_candidate(candidate_sources, idx)
             left  == IF partial THEN [exists |-> TRUE, files |-> {"junk"}, track |-> ""]
                      ELSE dest
         IN  /\ attempts' = Append(attempts, [url |-> cand.giturl, branch |-> clone_branch(cand),
                                              failed |-> TRUE])
             /\ error_msgs' = dict_set(error_msgs, cand.giturl, e)
             /\ dest' = wipe_out(left, dest_path_existed)
             /\ IF is_worktree_failure(e.stderr)
                THEN /\ Yield(get_status_dict("error", worktree_message(e.stderr), <<>>, source))
                     /\ pc' = "cd_done"
                     /\ idx' = idx
                ELSE /\ UNCHANGED records
                     /\ idx' = IF idx < Len(candidate_sources) THEN idx + 1 ELSE idx
                     /\ pc' = IF idx < Len(candidate_sources) THEN "loop" ELSE "postloop"
    /\ UNCHANGED <<inputs, reckless, dest_path_existed, candidate_sources, source, recon,
                   raised, label, inherit, remotes>>
    /\ UNCHANGED <<knows_annex, symlink_capability, ria, chain, probed_url,
          annex_dir>>

(***************************************************************************)
(* clone_dataset: after the loop.                                           *)
(***************************************************************************)
\* datalad.dochelpers.exc_str of a CommandError
exc_str(e) == "CommandError(stdout=" \o e.stdout \o ", stderr=" \o e.stderr \o ")"

\* a join that leaves out the URLs whose failure has no output
RECURSIVE join_errors_WithOutput(_)
join_errors_WithOutput(d) ==
    IF d = <<>> THEN ""
    ELSE IF Head(d).e.stdout = "" /\ Head(d).e.stderr = "" THEN join_errors_WithOutput(Tail(d))
    ELSE Head(d).url \o "\n  " \o exc_str(Head(d).e)
         \o (IF Len(d) > 1 THEN "\n- " \o join_errors_WithOutput(Tail(d)) ELSE "")

\* '\n- '.join('{}\n  {}'.format(url, exc_str(exc)) for url, exc in d.items())
RECURSIVE join_errors(_)
join_errors(d) ==
    IF d = <<>> THEN ""
    ELSE Head(d).url \o "\n  " \o exc_str(Head(d).e)
         \o (IF Len(d) > 1 THEN "\n- " \o join_errors(Tail(d)) ELSE "")

\* the keys from the last inserted to the first
dict_keys_Reversed(d) == [i \in 1..Len(d) |-> d[Len(d) + 1 - i].url]

\* list(error_msgs.keys())
dict_keys(d) == [i \in 1..Len(d) |-> d[i].url]

CheckInstalled ==
    /\ pc = "postloop"
    /\ IF is_installed(dest)
       THEN \* error_msgs is not read past this point: the model drops it
            /\ pc' = "check_head"
            /\ error_msgs' = <<>>
            /\ UNCHANGED <<records, raised>>
       ELSE IF error_msgs # <<>>
       THEN /\ pc' = "cd_done"
            /\ UNCHANGED <<raised, error_msgs>>
            /\ IF \A i \in 1..Len(error_msgs) :
                    error_msgs[i].e.stdout = "" /\ error_msgs[i].e.stderr = ""
               THEN Yield(get_status_dict("error",
                            "Failed to clone from all attempted sources: %s",
                            dict_keys(error_msgs), source))
               ELSE Yield(get_status_dict("error",
                            "Failed to clone from any candidate source URL. Encountered errors per each url were:\n- %s",
                            <<join_errors(error_msgs)>>, source))
       ELSE IF candidate_sources = <<>>
       THEN \* cand is not bound when the loop never ran
            Raise("UnboundLocalError", "cand") /\ UNCHANGED <<records, error_msgs>>
       ELSE /\ pc' = "cd_done"
            /\ UNCHANGED <<raised, error_msgs>>
            /\ Yield(get_status_dict("error",
                       "Awkward error -- we failed to clone properly. Although no errors were encountered, target dataset at %s seems to be not fully installed. The 'succesful' source was: %s",
                       <<candidate_sources[idx].giturl>>, source))
    /\ UNCHANGED <<inputs, reckless, dest, dest_path_existed, candidate_sources, idx,
                   source, attempts, recon, label, inherit, remotes>>
    /\ UNCHANGED <<knows_annex, symlink_capability, ria, chain, probed_url,
          annex_dir>>

(***************************************************************************)
(* Reconciliation after a successful transfer.                              *)
(***************************************************************************)
Did(op, a, b) == recon' = Append(recon, <<op, a, b>>)

\* the remote-tracking branches for_each_ref_ may list, newest first, each as
\* refname:strip=2 gives it: origin/<name>
BranchLists == {<<"origin/git-annex">>,
                <<"origin/git-annex", "origin/main", "origin/dev">>,
                <<"origin/HEAD", "origin/main", "origin/git-annex">>}

\* the first branch postclone_check_head does not skip, 0 when there is none
first_branch(branches) ==
    LET B == {i \in 1..Len(branches) : branches[i] \notin {"origin/git-annex", "HEAD"}}
    IN  IF B = {} THEN 0 ELSE CHOOSE i \in B : \A j \in B : i <= j

\* a repair that does not look at the version
has_version_Never(cand) == FALSE

\* line 514: cand.get("version") is there and not empty
has_version(cand) == cand.version # None /\ cand.version[1] # ""

\* lines 514-515 and postclone_check_head
CheckHead ==
    /\ pc = "check_head"
    /\ LET cand == candidate_sources[idx]
       IN  IF has_version(cand)
           THEN pc' = "shared" /\ UNCHANGED <<recon, raised>>
           ELSE \E born \in BOOLEAN, branches \in BranchLists, ok \in BOOLEAN :
                  IF born \/ first_branch(branches) = 0
                  THEN pc' = "shared" /\ UNCHANGED <<recon, raised>>
                  ELSE IF ok
                  THEN /\ Did("checkout", branches[first_branch(branches)],
                              From(branches[first_branch(branches)], 7))
                       /\ pc' = "shared"
                       /\ UNCHANGED raised
                  ELSE Raise("CommandError", "checkout") /\ UNCHANGED recon
    /\ UNCHANGED <<inputs, reckless, dest, dest_path_existed, candidate_sources, idx,
                   error_msgs, source, records, attempts, label, inherit, remotes>>
    /\ UNCHANGED <<knows_annex, symlink_capability, ria, chain, probed_url,
          annex_dir>>

is_shared(mode) == mode # None /\ StartsWith(mode[1], "shared-")

\* lines 517-522: git init --shared=<mode>
SharedReinit ==
    /\ pc = "shared"
    /\ IF is_shared(reckless)
       THEN \E ok \in BOOLEAN :
              IF ok THEN /\ Did("init-shared", From(reckless[1], 7), "")
                         /\ pc' = "annex"
                         /\ UNCHANGED raised
              ELSE Raise("CommandError", "init-shared") /\ UNCHANGED recon
       ELSE pc' = "annex" /\ UNCHANGED <<recon, raised>>
    /\ UNCHANGED <<inputs, reckless, dest, dest_path_existed, candidate_sources, idx,
                   error_msgs, source, records, attempts, label, inherit, remotes>>
    /\ UNCHANGED <<knows_annex, symlink_capability, ria, chain, probed_url,
          annex_dir>>

\* lines 783-800: RI(origin_annex_url).localpath is there for a path and for a
\* file:// URL, and raises ValueError, which is caught, for any other
origin_is_local(origin_url) ==
    /\ origin_url # ""
    /\ RIKind(origin_url) \in {"path", "url"}
    /\ RIKind(origin_url) = "url" => URLFields(origin_url).scheme = "file"

\* the path of origin taken for its repository directory as it is
origin_git_path_AsIs(origin_url) == PathStr(LocalPath(origin_url))

\* lines 787-789: the repository directory of origin
origin_git_path(origin_url) ==
    IF EndsWith(PathStr(LocalPath(origin_url)), "/.git")
    THEN PathStr(LocalPath(origin_url))
    ELSE PathStr(LocalPath(origin_url)) \o "/.git"

\* a replacement that removes .git/annex recursively, link or not
relink_Rmtree(annex_is_link, origin_url) ==
    <<<<"rmtree", ".git/annex", "">>,
      <<"symlink", ".git/annex", origin_git_path(origin_url) \o "/annex">>>>

\* the two effects that replace .git/annex by a link to the annex of origin
relink(annex_is_link, origin_url) ==
    <<<<IF annex_is_link THEN "unlink" ELSE "rmtree", ".git/annex", "">>,
      <<"symlink", ".git/annex", origin_git_path(origin_url) \o "/annex">>>>

\* a linking that does not ask whether the file system can hold links
link_effects_Unasked(symlinks, annex_is_link, origin_url) ==
    IF origin_is_local(origin_url) THEN relink(annex_is_link, origin_url)
    ELSE <<<<"log.warning", "reckless=ephemeral mode: origin doesn't seem local: %s\nno symlinks being used", origin_url>>>>

\* lines 777-810: .git/annex becomes a link to the annex of origin, or a
\* warning is logged
link_effects(symlinks, annex_is_link, origin_url) ==
    IF ~symlinks
    THEN <<<<"log.warning", "reckless=ephemeral mode: Unable to create symlinks on this file system.", "">>>>
    ELSE IF origin_url = "" THEN <<>>
    ELSE IF origin_is_local(origin_url) THEN relink(annex_is_link, origin_url)
    ELSE <<<<"log.warning", "reckless=ephemeral mode: origin doesn't seem local: %s\nno symlinks being used", origin_url>>>>

\* a tuning that forgets the shared modes
trust_effects_NoShared(mode) ==
    IF mode = Some("auto") THEN <<<<"untrust", "here", "">>>>
    ELSE IF mode = Some("ephemeral")
    THEN <<<<"config.set", "remote.origin.annex-ignore", "true">>, <<"dead", "here", "">>>>
    ELSE <<>>

\* lines 754-775: the trust in the content of this clone
trust_effects(mode) ==
    IF mode = Some("auto") \/ is_shared(mode) THEN <<<<"untrust", "here", "">>>>
    ELSE IF mode = Some("ephemeral")
    THEN <<<<"config.set", "remote.origin.annex-ignore", "true">>, <<"dead", "here", "">>>>
    ELSE <<>>

\* a flag stored in place of the mode
persist_effects_Flag(mode) ==
    IF mode # None /\ mode[1] # ""
    THEN <<<<"config.set", "datalad.clone.reckless", "true">>>> ELSE <<>>

\* lines 812-819: the mode is stored for later clones of subdatasets
persist_effects(mode) ==
    IF mode # None /\ mode[1] # ""
    THEN <<<<"config.set", "datalad.clone.reckless", mode[1]>>>> ELSE <<>>

\* the same effects with the hardlink option set after the initialisation
annex_effects_InitFirst(mode, symlinks, annex_is_link, origin_url) ==
    <<<<"annex-init", "", "">>>>
    \o (IF mode = Some("auto") THEN <<<<"config.set", "annex.hardlink", "true">>>> ELSE <<>>)
    \o trust_effects(mode)
    \o (IF mode = Some("ephemeral") THEN link_effects(symlinks, annex_is_link, origin_url)
        ELSE <<>>)
    \o persist_effects(mode)
    \o <<<<"get_special_remotes", "", "">>>>

\* the effects of postclonecfg_annexdataset before configure_origins, in order;
\* the last is the look at the special remotes of lines 821-885, which tells
\* the user of those that are not enabled and changes nothing
annex_effects(mode, symlinks, annex_is_link, origin_url) ==
    (IF mode = Some("auto") THEN <<<<"config.set", "annex.hardlink", "true">>>> ELSE <<>>)
    \o <<<<"annex-init", "", "">>>>
    \o trust_effects(mode)
    \o (IF mode = Some("ephemeral") THEN link_effects(symlinks, annex_is_link, origin_url)
        ELSE <<>>)
    \o persist_effects(mode)
    \o <<<<"get_special_remotes", "", "">>>>

\* a tuning that does not look for traces of the extension
postclonecfg_effects_Always(knows, mode, symlinks, annex_is_link, origin_url) ==
    annex_effects(mode, symlinks, annex_is_link, origin_url)

\* a tuning that persists the risk mode whatever the traces
postclonecfg_effects_Persist(knows, mode, symlinks, annex_is_link, origin_url) ==
    IF ~knows THEN persist_effects(mode)
    ELSE annex_effects(mode, symlinks, annex_is_link, origin_url)

\* lines 731-733: nothing is done to a clone without traces of the extension
postclonecfg_effects(knows, mode, symlinks, annex_is_link, origin_url) ==
    IF ~knows THEN <<>> ELSE annex_effects(mode, symlinks, annex_is_link, origin_url)

\* .git/annex and the annex of origin after the effects: a link made is
\* there, and a recursive removal of what was a link is taken to go through
\* the link and remove what it points to
annex_dir_after(d, is_link, effects) ==
    IF \A i \in 1..Len(effects) : effects[i][1] # "symlink" THEN d
    ELSE [kind |-> "link",
          origin_annex |-> IF is_link /\ \E i \in 1..Len(effects) : effects[i][1] = "rmtree"
                           THEN "removed" ELSE d.origin_annex]

\* lines 524-527 and postclonecfg_annexdataset up to its call of configure_origins;
\* check_symlink_capability is only asked under 'ephemeral'
AnnexCfg ==
    /\ pc = "annex"
    /\ \E knows \in BOOLEAN, symlinks \in BOOLEAN,
          annex_is_link \in (IF annex_dir.kind = "unknown" THEN BOOLEAN
                             ELSE {annex_dir.kind = "link"}),
          inherits \in BOOLEAN, ok \in BOOLEAN :
         /\ knows_annex' = Some(knows)
         /\ IF ~knows
            THEN /\ pc' = "ria"
                 /\ recon' = recon \o postclonecfg_effects(knows, reckless, symlinks,
                                                           annex_is_link, dest.track)
                 /\ UNCHANGED <<raised, label, inherit, symlink_capability, annex_dir>>
            ELSE IF ~ok
            THEN /\ Raise("CommandError", "annex-init")
                 /\ UNCHANGED <<recon, label, inherit, symlink_capability, annex_dir>>
            ELSE /\ recon' = recon \o postclonecfg_effects(knows, reckless, symlinks,
                                                           annex_is_link, dest.track)
                 /\ annex_dir' = annex_dir_after(annex_dir, annex_is_link,
                                    postclonecfg_effects(knows, reckless, symlinks,
                                                         annex_is_link, dest.track))
                 /\ symlink_capability' = IF reckless = Some("ephemeral") THEN Some(symlinks)
                                          ELSE None
                 /\ label' = 1
                 /\ inherit' = inherits
                 /\ pc' = "origins"
                 /\ UNCHANGED raised
    /\ UNCHANGED <<inputs, reckless, dest, dest_path_existed, candidate_sources, idx,
                   error_msgs, source, records, attempts, remotes, ria, chain,
                   probed_url>>

\* the origin URLs an ancestor dataset may have
AncestorOrigins == {"", "/o/t", "http://h/t"}

\* a name that counts the ancestors, the direct origin being none of them
origin_name_Ancestor(lbl, rems) == "origin-" \o ToString(lbl - 1)

\* line 938: the name of the remote for the origin found at depth lbl
origin_name(lbl, rems) == "origin-" \o ToString(lbl)

\* a walk that follows no origin URL twice
goes_deeper_Once(origin_url, inh) ==
    /\ origin_url # "" /\ inh /\ RIKind(origin_url) = "path"
    /\ \A k \in 1..Len(chain) : chain[k] # origin_url

\* a walk that follows any origin URL there is
goes_deeper_Any(origin_url, inh) == origin_url # "" /\ inh

\* lines 915-925: the walk goes on with an origin URL that is a local path,
\* unless datalad.install.inherit-local-origin is off
goes_deeper(origin_url, inh) ==
    origin_url # "" /\ inh /\ RIKind(origin_url) = "path"

\* configure_origins(cfgds, probeds, label): one level of the walk; the
\* dataset at depth label has the origin URL of the clone, or any other.
\* The recursion has no bound of its own: cap is the deepest level followed.
configure_origins(cap) ==
    /\ pc = "origins"
    /\ \E u \in AncestorOrigins \cup {dest.track}, st \in {"ok", "error"} :
         LET origin_url == IF label = 1 THEN dest.track ELSE u
             known      == {remotes[i].url : i \in 1..Len(remotes)}
         IN  /\ (label >= cap => ~goes_deeper(origin_url, inherit))
             /\ probed_url' = origin_url
             /\ IF ~goes_deeper(origin_url, inherit)
                THEN pc' = "ria" /\ UNCHANGED <<label, remotes, records, recon, chain>>
                ELSE /\ pc' = "origins"
                     /\ label' = label + 1
                     /\ chain' = Append(chain, origin_url)
                     /\ IF label > 1 /\ origin_url \notin known
                        THEN /\ Yield(foreign_record("configure-sibling", st))
                             /\ Did("siblings.configure", origin_name(label, remotes),
                                    "url=" \o origin_url \o " fetch=True")
                             /\ remotes' = IF st = "ok"
                                           THEN Append(remotes,
                                                  [name |-> origin_name(label, remotes),
                                                   url  |-> origin_url])
                                           ELSE remotes
                        ELSE UNCHANGED <<remotes, records, recon>>
    /\ UNCHANGED <<inputs, reckless, dest, dest_path_existed, candidate_sources, idx,
                   error_msgs, source, attempts, raised, inherit>>
    /\ UNCHANGED <<knows_annex, symlink_capability, ria, annex_dir>>

\* line 889: the walk as clone_dataset comes to it
ConfigureOrigins == pc = "origins" /\ configure_origins(MaxDepth)

\* lines 600-601: the siblings with an ORA special remote
ora_enabled(w) == {r.name : r \in {x \in w.srs : x.externaltype = "ora" /\ x.name \in w.enabled}}

\* a discovery that does not look at the siblings
looks_up_Known(w) == \E r \in w.srs : r.externaltype = "ora"

\* lines 602-606: nothing is enabled, and an ORA special remote is known of
looks_up(w) == ora_enabled(w) = {} /\ \E r \in w.srs : r.externaltype = "ora"

\* line 616
url_scheme_Family(giturl) ==
    IF StartsWith(giturl, "http") THEN "http" ELSE SplitFirst(giturl, ":")

url_scheme(giturl) == SplitFirst(giturl, ":")

\* lines 617-653: the read of the config file the scheme calls for
fetch_effects(giturl) ==
    IF url_scheme(giturl) = "http"
    THEN <<<<"requests.get", giturl \o (IF EndsWith(giturl, "/") THEN "" ELSE "/") \o "config", "">>>>
    ELSE IF url_scheme(giturl) = "ssh"
    THEN <<<<"SSHRemoteIO.read_file", RStripSlash(URLFields(giturl).path) \o "/config", giturl>>>>
    ELSE IF url_scheme(giturl) = "file"
    THEN <<<<"LocalIO.read_file", RStripSlash(PathStr(LocalPath(giturl))) \o "/config", "">>>>
    ELSE <<<<"log.debug", "Unknown URL-Scheme in %s. Can handle SSH, HTTP or FILE scheme URLs.", "">>>>

\* whether the file was asked for, and whether that failed
fetch_outcome(giturl, got) ==
    IF url_scheme(giturl) \notin {"http", "ssh", "file"} THEN "none"
    ELSE IF got.ok THEN "ok" ELSE "failed"

\* a content that is there although the read failed
config_content_of_Stale(giturl, got) ==
    IF url_scheme(giturl) \notin {"http", "ssh", "file"} THEN ""
    ELSE IF got.ok THEN got.text
    ELSE "[datalad \"ora-remote\"]\n\tuuid = u1\n"

\* config_content, "" for None
config_content_of(giturl, got) == IF fetch_outcome(giturl, got) = "ok" THEN got.text ELSE ""

\* git config -f <file> datalad.ora-remote.uuid: its stdout, None when it fails
git_config_get(text) ==
    IF Contains(text, "[datalad \"ora-remote\"]\n\tuuid = ")
    THEN Some(SplitRest(text, "[datalad \"ora-remote\"]\n\tuuid = "))
    ELSE None

\* lines 656-674: org_uuid, "" for None
org_uuid_of(content) ==
    IF content = "" \/ git_config_get(content) = None THEN ""
    ELSE Strip(git_config_get(content)[1])

\* a choice of any known ORA special remote when the identifier is known
matching_Any(w, uuid) ==
    IF \E r \in w.srs : r.uuid = uuid THEN {r \in w.srs : r.externaltype = "ora"} ELSE {}

\* lines 680-681: the special remote with the identifier
matching(w, uuid) == {r \in w.srs : r.uuid = uuid}

\* line 679: the identifier is there
has_uuid(uuid) == uuid # ""

\* the special remote that gets enabled, when one is
to_enable(w, giturl, got) ==
    IF looks_up(w) /\ has_uuid(org_uuid_of(config_content_of(giturl, got)))
    THEN matching(w, org_uuid_of(config_content_of(giturl, got)))
    ELSE {}

\* ora_remotes when line 708 is reached
ora_remotes_of(w, giturl, got, enable_ok) ==
    IF to_enable(w, giturl, got) # {} /\ enable_ok
    THEN {r.name : r \in {x \in to_enable(w, giturl, got) : x.externaltype = "ora"}}
    ELSE ora_enabled(w)

\* line 688
store_url(props) == SplitFirst(props.source, "#")

\* lines 607-706: the look into the config of the store and the enabling
lookup_effects(w, props, got, enable_ok) ==
    IF ~looks_up(w) THEN <<>>
    ELSE fetch_effects(props.giturl)
         \o (IF fetch_outcome(props.giturl, got) = "failed"
             THEN <<<<"log.debug", "Failed to get config file from source", "">>>> ELSE <<>>)
         \o (IF config_content_of(props.giturl, got) # ""
                /\ git_config_get(config_content_of(props.giturl, got)) = None
             THEN <<<<"log.debug", "Found no UUID for ORA special remote at '%s' (%s)", "origin">>>>
             ELSE <<>>)
         \o (IF ~has_uuid(org_uuid_of(config_content_of(props.giturl, got))) THEN <<>>
             ELSE IF to_enable(w, props.giturl, got) = {}
             THEN <<<<"log.debug", "Unknown ORA special remote uuid at '%s': %s",
                      org_uuid_of(config_content_of(props.giturl, got))>>>>
             ELSE <<<<"enable_remote", (CHOOSE r \in to_enable(w, props.giturl, got) : TRUE).name,
                      "url=" \o store_url(props)>>>>
                  \o (IF enable_ok THEN <<>>
                      ELSE <<<<"log.debug", "Failed to reconfigure ORA special remote: %s", "">>>>))

\* the names of some of the special remotes, as a list
names(ora) ==
    (IF "store-storage" \in ora THEN "store-storage" ELSE "")
    \o (IF {"store-storage", "archive"} \subseteq ora THEN ", " ELSE "")
    \o (IF "archive" \in ora THEN "archive" ELSE "")

\* a dependency on some remote whenever there is one
depend_effects_Guess(ora) ==
    IF ora = {} THEN <<>>
    ELSE <<<<"siblings.configure", "origin", "publish_depends=" \o (CHOOSE n \in ora : TRUE)>>>>

\* lines 708-721: the publication dependency of origin
depend_effects(ora) ==
    IF ora = {} THEN <<>>
    ELSE IF Cardinality(ora) = 1
    THEN <<<<"siblings.configure", "origin", "publish_depends=" \o (CHOOSE n \in ora : TRUE)>>>>
    ELSE <<<<"log.warning", "Found multiple ORA remotes. Couldn't decide which publishing to 'origin' should depend on: %s.", names(ora)>>>>

\* a template that keeps the whole specification
template_effects_Whole(props) ==
    <<<<"config.set", "remote.origin.annex-ignore", "true">>,
      <<"config.set", "datalad.get.subdataset-source-candidate-200origin",
        props.source \o "#{id}">>>>

\* lines 577-595
template_effects(props) ==
    <<<<"config.set", "remote.origin.annex-ignore", "true">>,
      <<"config.set", "datalad.get.subdataset-source-candidate-200origin",
        store_url(props) \o "#{id}">>>>

\* what the step found
ria_found(w, props, got, enable_ok) ==
    [ran |-> TRUE, special_remotes |-> w.srs, enabled |-> w.enabled,
     fetch |-> IF looks_up(w) THEN fetch_outcome(props.giturl, got) ELSE "none",
     config_content |-> IF looks_up(w) THEN config_content_of(props.giturl, got) ELSE "",
     org_uuid |-> IF looks_up(w) THEN org_uuid_of(config_content_of(props.giturl, got)) ELSE "",
     ora_remotes |-> ora_remotes_of(w, props.giturl, got, enable_ok)]

\* postclonecfg_ria(ds, props) with what it meets: w the special remotes, got
\* the read of the config file, and the outcomes of enable_remote and of
\* siblings('configure')
postclonecfg_ria(w, got, enable_ok, configure_ok) ==
    /\ ria' = ria_found(w, source[1], got, enable_ok)
    /\ recon' = recon \o template_effects(source[1])
                      \o lookup_effects(w, source[1], got, enable_ok)
                      \o depend_effects(ora_remotes_of(w, source[1].giturl, got, enable_ok))
    /\ IF Cardinality(ora_remotes_of(w, source[1].giturl, got, enable_ok)) = 1
       THEN IF configure_ok
            THEN /\ Yield(foreign_record("configure-sibling", "ok"))
                 /\ pc' = "yield_ok"
                 /\ UNCHANGED raised
            ELSE Raise("IncompleteResultsError", "siblings-configure") /\ UNCHANGED records
       ELSE /\ pc' = "yield_ok"
            /\ UNCHANGED <<records, raised>>

\* the outcomes of the calls the step does not make are left at one value
asked_for(w, giturl, got, enable_ok, configure_ok) ==
    /\ (looks_up(w) /\ url_scheme(giturl) \in {"http", "ssh", "file"})
          \/ got = [ok |-> FALSE, text |-> ""]
    /\ to_enable(w, giturl, got) # {} \/ enable_ok
    /\ Cardinality(ora_remotes_of(w, giturl, got, enable_ok)) = 1 \/ configure_ok

\* lines 529-532 and postclonecfg_ria; a repository without the extension
\* has no special remotes
RiaCfg ==
    /\ pc = "ria"
    /\ IF source[1].kind = "ria"
       THEN \E w \in (IF knows_annex = Some(TRUE) THEN Worlds ELSE {NoSpecialRemotes}),
               got \in Retrievals, enable_ok \in BOOLEAN, configure_ok \in BOOLEAN :
              \* an outcome is drawn only for what the step asks for
              /\ asked_for(w, source[1].giturl, got, enable_ok, configure_ok)
              /\ postclonecfg_ria(w, got, enable_ok, configure_ok)
       ELSE pc' = "yield_ok" /\ UNCHANGED <<recon, records, raised, ria>>
    /\ UNCHANGED <<inputs, reckless, dest, dest_path_existed, candidate_sources, idx,
                   error_msgs, source, attempts, label, inherit, remotes>>
    /\ UNCHANGED <<knows_annex, symlink_capability, chain, probed_url, annex_dir>>

\* a return without the final record
YieldOk_Silent ==
    /\ pc = "yield_ok"
    /\ pc' = "cd_done"
    /\ UNCHANGED <<inputs, reckless, dest, dest_path_existed, candidate_sources, idx,
                   error_msgs, source, records, attempts, recon, raised, label, inherit, remotes>>
    /\ UNCHANGED <<knows_annex, symlink_capability, ria, chain, probed_url,
          annex_dir>>

\* line 537
YieldOk ==
    /\ pc = "yield_ok"
    /\ Yield(get_status_dict("ok", "", <<>>, source))
    /\ pc' = "cd_done"
    /\ UNCHANGED <<inputs, reckless, dest, dest_path_existed, candidate_sources, idx,
                   error_msgs, source, attempts, recon, raised, label, inherit, remotes>>
    /\ UNCHANGED <<knows_annex, symlink_capability, ria, chain, probed_url,
          annex_dir>>

(***************************************************************************)
(* Clone.__call__ after clone_dataset: the subdataset registration.         *)
(***************************************************************************)
RECURSIVE save_records(_)
save_records(n) == IF n = 0 THEN <<>> ELSE Append(save_records(n - 1), foreign_record("save", "ok"))

CloneSave ==
    /\ pc = "cd_done"
    /\ entry = "clone"
    /\ IF has_ds
       THEN \E n \in 0..MaxSaveRecords : records' = records \o save_records(n)
       ELSE UNCHANGED records
    /\ pc' = "done"
    /\ UNCHANGED <<inputs, reckless, dest, dest_path_existed, candidate_sources, idx,
                   error_msgs, source, attempts, recon, raised, label, inherit, remotes>>
    /\ UNCHANGED <<knows_annex, symlink_capability, ria, chain, probed_url,
          annex_dir>>

Next ==
    \/ CloneCall
    \/ HelperCall
    \/ CloneDatasetBegin
    \/ AttemptSucceeds
    \/ AttemptFails
    \/ CheckInstalled
    \/ CheckHead
    \/ SharedReinit
    \/ AnnexCfg
    \/ ConfigureOrigins
    \/ RiaCfg
    \/ YieldOk
    \/ CloneSave

Spec == Init /\ [][Next]_vars

(***************************************************************************)
(* postclonecfg_ria on its own: the operation at line 529, after the first  *)
(* or the second candidate of one specification was cloned without a risk   *)
(* mode.                                                                    *)
(***************************************************************************)
\* archive stores reached by http, ssh, a local path and https, and a URL
\* that is no archive store
RiaSources == {"ria+http://store.datalad.org#~a", "ria+ssh://h/p/#~a", "ria+file:///s#~a@v",
               "ria+https://store.datalad.org#~a", "http://h/r"}

\* the attempts that end with the success of the k-th candidate
attempts_up_to(cands, k) ==
    [n \in 1..k |-> [url |-> cands[n].giturl, branch |-> clone_branch(cands[n]),
                     failed |-> n < k]]

RiaInit ==
    /\ pc = "ria"
    /\ entry = "clone_dataset"
    /\ srcs \in {<<sp>> : sp \in RiaSources}
    /\ rules = {}
    /\ path_arg = None
    /\ has_ds = FALSE
    /\ path_in_ds = TRUE
    /\ path_ok = TRUE
    /\ reckless_arg = None
    /\ ds_reckless = None
    /\ reckless = None
    /\ candidate_sources = expand_candidates(rules, srcs)
    /\ idx \in 1..Len(candidate_sources)
    /\ attempts = attempts_up_to(candidate_sources, idx)
    /\ dest0 = NoDest
    /\ dest = [exists |-> TRUE, files |-> {".git"},
               track |-> recorded_url(candidate_sources[idx].giturl)]
    /\ dest_path_existed = FALSE
    /\ error_msgs = <<>>
    /\ source = Some(winner(candidate_sources, idx))
    /\ records = <<>>
    /\ raised = None
    /\ remotes = <<[name |-> "origin", url |-> dest.track]>>
    /\ knows_annex \in {Some(TRUE), Some(FALSE)}
    /\ recon = postclonecfg_effects(knows_annex[1], reckless, FALSE, FALSE, dest.track)
    /\ symlink_capability = None
    /\ inherit = TRUE
    /\ label = IF knows_annex = Some(FALSE) THEN 0
               ELSE IF RIKind(dest.track) = "path" THEN 2 ELSE 1
    /\ ria = NoRia
    /\ chain = IF label = 2 THEN <<dest.track>> ELSE <<>>
    /\ probed_url = IF label = 0 THEN "" ELSE IF label = 1 THEN dest.track ELSE "http://h/t"
    /\ annex_dir = FreshAnnexDir

RiaNext == RiaCfg \/ YieldOk

RiaSpec == RiaInit /\ [][RiaNext]_vars

(***************************************************************************)
(* configure_origins alone: the state after postclonecfg_annexdataset has   *)
(* tuned a clone with annex traces, and a world in which no dataset's       *)
(* configuration changes while the walk is under way.                       *)
(***************************************************************************)
WalkSources == {"~/s", "/o/t", "ria+file:///s#~a@v", "http://h/r"}

WalkInit ==
    /\ pc = "origins"
    /\ entry = "clone_dataset"
    /\ srcs \in {<<sp>> : sp \in WalkSources}
    /\ rules = {}
    /\ path_arg = None
    /\ has_ds = FALSE
    /\ path_in_ds = TRUE
    /\ path_ok = TRUE
    /\ reckless_arg \in {None, Some("auto")}
    /\ ds_reckless = None
    /\ reckless = reckless_arg
    /\ candidate_sources = expand_candidates(rules, srcs)
    /\ idx \in 1..Len(candidate_sources)
    /\ attempts = attempts_up_to(candidate_sources, idx)
    /\ dest0 = NoDest
    /\ dest = [exists |-> TRUE, files |-> {".git"},
               track |-> recorded_url(candidate_sources[idx].giturl)]
    /\ dest_path_existed = FALSE
    /\ error_msgs = <<>>
    /\ source = Some(winner(candidate_sources, idx))
    /\ records = <<>>
    /\ raised = None
    /\ remotes = <<[name |-> "origin", url |-> dest.track]>>
    /\ knows_annex = Some(TRUE)
    /\ recon = postclonecfg_effects(TRUE, reckless, FALSE, FALSE, dest.track)
    /\ symlink_capability = None
    /\ inherit \in BOOLEAN
    /\ label = 1
    /\ ria = NoRia
    /\ chain = <<>>
    /\ probed_url = ""
    /\ annex_dir = FreshAnnexDir

\* the dataset probed at this level was probed before: it has the origin URL
\* it had then, and the walk goes where it went then
Steady ==
    \A k \in 1..(Len(chain) - 1) :
      chain[k] = chain[Len(chain)]
      => pc' = "origins" /\ chain' = Append(chain, chain[k + 1])

WalkLevel == configure_origins(MaxWalk) /\ Steady

WalkNext == WalkLevel \/ RiaCfg \/ YieldOk

WalkSpec == WalkInit /\ [][WalkNext]_vars /\ WF_vars(WalkLevel)

(***************************************************************************)
(* The decoding, the expansion and the attempt loop of clone_dataset alone, *)
(* for source specifications with and without a version.                    *)
(***************************************************************************)
CandSpecs == {"http://h/r", "https://h/r/.git", "~/s", "ria+file:///s#~a@v",
              "ria+file:///s#~a@", "ria+http://s#x"}

CandInit ==
    /\ pc = "clone_dataset"
    /\ entry = "clone_dataset"
    /\ srcs \in SeqsUpTo(CandSpecs, MaxSrcs)
    /\ rules = {}
    /\ path_arg = None
    /\ has_ds = FALSE
    /\ path_in_ds = TRUE
    /\ path_ok = TRUE
    /\ reckless_arg = None
    /\ ds_reckless = None
    /\ reckless = None
    /\ dest \in {NoDest, [exists |-> TRUE, files |-> {}, track |-> ""]}
    /\ dest0 = dest
    /\ dest_path_existed = FALSE
    /\ candidate_sources = <<>>
    /\ idx = 0
    /\ error_msgs = <<>>
    /\ source = None
    /\ records = <<>>
    /\ attempts = <<>>
    /\ recon = <<>>
    /\ raised = None
    /\ label = 0
    /\ inherit = TRUE
    /\ remotes = <<>>
    /\ knows_annex = None
    /\ symlink_capability = None
    /\ ria = NoRia
    /\ chain = <<>>
    /\ probed_url = ""
    /\ annex_dir = FreshAnnexDir

CandNext == CloneDatasetBegin \/ AttemptSucceeds \/ AttemptFails \/ CheckInstalled

CandSpec == CandInit /\ [][CandNext]_vars

(***************************************************************************)
(* postclonecfg_annexdataset applied to a clone more than once, as its      *)
(* callers outside of clone_dataset apply it to a dataset that is there.    *)
(***************************************************************************)
LinkSources == {"~/s", "/o/t", "file:///o/t", "ria+file:///s#~a@v", "http://h/r"}

LinkInit ==
    /\ pc = "annex"
    /\ entry = "clone_dataset"
    /\ srcs \in {<<sp>> : sp \in LinkSources}
    /\ rules = {}
    /\ path_arg = None
    /\ has_ds = FALSE
    /\ path_in_ds = TRUE
    /\ path_ok = TRUE
    /\ reckless_arg \in {Some("ephemeral"), Some("auto")}
    /\ ds_reckless = None
    /\ reckless = reckless_arg
    /\ candidate_sources = expand_candidates(rules, srcs)
    /\ idx \in 1..Len(candidate_sources)
    /\ attempts = attempts_up_to(candidate_sources, idx)
    /\ dest0 = NoDest
    /\ dest = [exists |-> TRUE, files |-> {".git"},
               track |-> recorded_url(candidate_sources[idx].giturl)]
    /\ dest_path_existed = FALSE
    /\ error_msgs = <<>>
    /\ source = Some(winner(candidate_sources, idx))
    /\ records = <<>>
    /\ raised = None
    /\ remotes = <<[name |-> "origin", url |-> dest.track]>>
    /\ knows_annex = None
    /\ recon = <<>>
    /\ symlink_capability = None
    /\ inherit = TRUE
    /\ label = 0
    /\ ria = NoRia
    /\ chain = <<>>
    /\ probed_url = ""
    /\ annex_dir = FreshAnnexDir

\* the times the extension was initialised in this clone
applications == Cardinality({i \in 1..Len(recon) : recon[i][1] = "annex-init"})

\* line 892: the reconciler is handed the same clone again
Reapply ==
    /\ pc = "ria"
    /\ applications < MaxApply
    /\ pc' = "annex"
    /\ UNCHANGED <<inputs, reckless, dest, dest_path_existed, candidate_sources, idx,
                   error_msgs, source, records, attempts, recon, raised, label, inherit,
                   remotes>>
    /\ UNCHANGED <<knows_annex, symlink_capability, ria, chain, probed_url,
          annex_dir>>

LinkNext == AnnexCfg \/ ConfigureOrigins \/ Reapply

LinkSpec == LinkInit /\ [][LinkNext]_vars

(***************************************************************************)
(* decode_source_spec on its own.                                           *)
(***************************************************************************)
UUID == "76b6ca66-36b1-11ea-a2e6-f0d5bf7b5561"

\* archive stores with an empty path, a path, and a path that ends in '/'
Stores == {"ria+http://store.datalad.org", "ria+file:///s", "ria+ssh://h/p/"}

\* dataset IDs: a UUID, a UUID with more text, a UUID in capitals, aliases,
\* and text that is neither
DatasetIDs == {UUID, UUID \o "zzz", "76B6CA66-36B1-11EA-A2E6-F0D5BF7B5561",
               "~hcp-openaccess", "~", "x", ""}

Versions == {"", "@v1", "@", "@v1@2"}

PlainSources ==
    {"https://example.com/group/repo.git", "https://example.com/group/repo/.git",
     "https://example.com/group/repo.git/", "http://example.com", "http://example.com/",
     "https://example.com/my%20repo.git", "https://example.com/a%2Fb",
     "ex:group/repo.git", "///x/y", "~/s", "/a/b.git/", "h:p/r.git"}

DecodeInputs ==
    {st \o "#" \o id \o v : st \in Stores, id \in DatasetIDs, v \in Versions} \cup PlainSources

DecodeRuleSets == {{}, {[base |-> "https://example.com/", insteadOf |-> "ex:"]}}

DecodeInit ==
    /\ pc = "decode"
    /\ entry = "decode_source_spec"
    /\ srcs \in {<<sp>> : sp \in DecodeInputs}
    /\ rules \in DecodeRuleSets
    /\ path_arg = None
    /\ has_ds = FALSE
    /\ path_in_ds = TRUE
    /\ path_ok = TRUE
    /\ reckless_arg = None
    /\ ds_reckless = None
    /\ reckless = None
    /\ dest = NoDest
    /\ dest0 = NoDest
    /\ dest_path_existed = FALSE
    /\ candidate_sources = <<>>
    /\ idx = 0
    /\ error_msgs = <<>>
    /\ source = None
    /\ records = <<>>
    /\ attempts = <<>>
    /\ recon = <<>>
    /\ raised = None
    /\ label = 0
    /\ inherit = TRUE
    /\ remotes = <<>>
    /\ knows_annex = None
    /\ symlink_capability = None
    /\ ria = NoRia
    /\ chain = <<>>
    /\ probed_url = ""
    /\ annex_dir = FreshAnnexDir

\* line 361 for one specification
DecodeCall ==
    /\ pc = "decode"
    /\ IF decode_raises(rules, srcs[1])
       THEN Raise("ValueError", "decode_source_spec") /\ UNCHANGED candidate_sources
       ELSE /\ candidate_sources' = <<decode_source_spec(rules, srcs[1])>>
            /\ pc' = "decoded"
            /\ UNCHANGED raised
    /\ UNCHANGED <<inputs, reckless, dest, dest_path_existed, idx, error_msgs, source,
                   records, attempts, recon, label, inherit, remotes,
                   knows_annex, symlink_capability, ria, chain, probed_url,
          annex_dir>>

DecodeNext == DecodeCall

DecodeSpec == DecodeInit /\ [][DecodeNext]_vars

(***************************************************************************)
(* Properties of the record stream and of the destination.                  *)
(***************************************************************************)
IsInstall(r) == r.action = "install"

InstallIdx == {i \in 1..Len(records) : IsInstall(records[i])}

LastRecord == records[Len(records)]

LastAttempt == attempts[Len(attempts)]

AllFailed == \A k \in 1..Len(attempts) : attempts[k].failed

\* the destination was there and not empty when clone_dataset looked at it
Occupied == dest0.exists /\ dest0.files # {}

\* clone_dataset returned straight from its test of the destination
Untouched == attempts = <<>> /\ recon = <<>> /\ dest = dest0 /\ remotes = <<>>

\* C1 as stated: with an installed dataset at the destination whose tracking
\* URL equals the fetch URL of a candidate verbatim, in its file:// form or in
\* its local-path form, clone_dataset emits one 'notneeded' record and
\* transfers and changes nothing.
C1_AsStated ==
    (/\ pc = "cd_done"
     /\ Occupied
     /\ ".git" \in dest0.files
     /\ \E i \in 1..Len(candidate_sources) :
          \/ dest0.track = candidate_sources[i].giturl
          \/ get_local_file_url(dest0.track) = candidate_sources[i].giturl
          \/ PathStr(dest0.track) = candidate_sources[i].giturl)
    => /\ Len(records) = 1
       /\ IsInstall(records[1])
       /\ records[1].status = "notneeded"
       /\ Untouched

\* C1 amended: the same, where the local-path form of the tracking URL is
\* compared with the fetch URL after expansion of a leading '~'.
C1_NotNeeded ==
    (/\ pc = "cd_done"
     /\ Occupied
     /\ ".git" \in dest0.files
     /\ \E i \in 1..Len(candidate_sources) :
          \/ dest0.track = candidate_sources[i].giturl
          \/ get_local_file_url(dest0.track) = candidate_sources[i].giturl
          \/ PathStr(dest0.track) = expanduser(candidate_sources[i].giturl))
    => /\ Len(records) = 1
       /\ IsInstall(records[1])
       /\ records[1].status = "notneeded"
       /\ Untouched

\* a 'notneeded' answer that rests on the file:// form of the tracking URL
C1_Witness ==
    /\ pc = "cd_done"
    /\ Len(records) = 1
    /\ records[1].status = "notneeded"
    /\ Untouched
    /\ \A i \in 1..Len(candidate_sources) : dest0.track # candidate_sources[i].giturl
    /\ \E i \in 1..Len(candidate_sources) :
         get_local_file_url(dest0.track) = candidate_sources[i].giturl

\* C2: a run of clone_dataset that returns has emitted exactly one record of
\* action 'install', with status 'ok', 'notneeded' or 'error'; no run emits
\* two of them.
C2_OneTerminal ==
    /\ Cardinality(InstallIdx) <= 1
    /\ \A i \in InstallIdx : records[i].status \in {"ok", "notneeded", "error"}
    /\ (pc = "cd_done" => Cardinality(InstallIdx) = 1)

\* a returned run whose stream holds sub-step records and the terminal record
C2_Witness ==
    /\ pc = "cd_done"
    /\ Len(records) >= 3
    /\ Cardinality(InstallIdx) = 1
    /\ \E i \in 1..Len(records) : records[i].action = "configure-sibling"

\* C3 as stated: on the stream of the public clone operation no record
\* follows a terminal 'error' record, also when a parent dataset was given.
C3_AsStated ==
    \A i \in 1..Len(records) :
       (entry = "clone" /\ IsInstall(records[i]) /\ records[i].status = "error")
       => i = Len(records)

\* C4: the k-th transfer is made from the k-th candidate, so the candidates
\* are tried in order and at most once each; only the last transfer can have
\* succeeded, and the winner is the candidate of that transfer.
C4_InOrder ==
    /\ Len(attempts) <= Len(candidate_sources)
    /\ \A k \in 1..Len(attempts) :
         /\ attempts[k].url = candidate_sources[k].giturl
         /\ (k < Len(attempts) => attempts[k].failed)
    /\ (source # None => /\ attempts # <<>>
                         /\ ~LastAttempt.failed
                         /\ source[1] = candidate_sources[Len(attempts)])
    /\ (attempts # <<>> /\ ~LastAttempt.failed => source # None)

\* a success after a failure, with candidates left untried
C4_Witness ==
    /\ pc = "cd_done"
    /\ Len(attempts) = 2
    /\ Len(candidate_sources) > 2
    /\ attempts[1].failed
    /\ ~attempts[2].failed
    /\ candidate_sources[1] # candidate_sources[2]
    /\ LastRecord.status = "ok"

\* the CommandError captured for a URL
captured(d, url) == d[CHOOSE i \in 1..Len(d) : d[i].url = url].e

\* the text a fatal record carries for the given stderr
diagnostic(e_stderr) ==
    LET F == {n \in 1..(Len(e_stderr) - 6) : SubSeq(e_stderr, n, n + 6) = "fatal: "}
    IN  IF F = {} THEN "stderr: " \o e_stderr
        ELSE Strip(SubSeq(e_stderr, (CHOOSE n \in F : \A m \in F : m <= n) + 7, Len(e_stderr)))

\* C5: a transfer that fails with 'could not create work tree' in its
\* diagnostic makes clone_dataset emit one 'error' record with the extracted
\* diagnostic and return at once; once clone_dataset has returned there is no
\* further transfer and no reconciliation.
C5_WorkTreeFatal ==
    /\ [][(/\ Len(attempts') = Len(attempts) + 1
           /\ attempts'[Len(attempts')].failed
           /\ Contains(captured(error_msgs', attempts'[Len(attempts')].url).stderr,
                       "could not create work tree"))
          => /\ pc' = "cd_done"
             /\ records = <<>>
             /\ Len(records') = 1
             /\ IsInstall(records'[1])
             /\ records'[1].status = "error"
             /\ records'[1].message.text
                  = diagnostic(captured(error_msgs', attempts'[Len(attempts')].url).stderr)
             /\ recon' = <<>>]_vars
    /\ [][(pc \in {"cd_done", "done"}) => (attempts' = attempts /\ recon' = recon)]_vars

\* the first of several candidates failed this way: one transfer, one record
C5_Witness ==
    /\ pc = "cd_done"
    /\ Len(attempts) = 1
    /\ Len(candidate_sources) >= 2
    /\ Len(records) = 1
    /\ records[1].status = "error"
    /\ records[1].message.text = "could not create work tree dir 'd': Permission denied"
    /\ recon = <<>>


\* C6: after a failed transfer the destination is absent when it was absent
\* before the operation, and is an empty directory when it was there before;
\* every transfer starts from an empty or absent destination.
C6_Cleanup ==
    /\ (attempts # <<>> /\ LastAttempt.failed)
       => /\ dest.exists = dest0.exists
          /\ dest.files = {}
    /\ pc = "loop" => /\ dest.exists = dest0.exists
                      /\ dest.files = {}

\* two failed transfers into a directory that was there before
C6_Witness ==
    /\ Len(attempts) = 2
    /\ AllFailed
    /\ dest0.exists
    /\ dest.exists
    /\ dest.files = {}

\* the positions of the transfers that were the first from their URL
FirstTries == {k \in 1..Len(attempts) : \A j \in 1..(k - 1) : attempts[j].url # attempts[k].url}

\* the URLs transfers were made from, in the order they were first tried
AttemptedURLs ==
    [n \in 1..Cardinality(FirstTries) |->
       attempts[CHOOSE k \in FirstTries : Cardinality({j \in FirstTries : j < k}) = n - 1].url]

NoOutput(e) == e.stdout = "" /\ e.stderr = ""

\* every candidate was tried and every transfer failed
Exhausted == /\ attempts # <<>>
             /\ Len(attempts) = Len(candidate_sources)
             /\ AllFailed

\* C7: when every one of several candidates failed and no captured failure
\* has output, the one record is an 'error' whose message lists the attempted
\* URLs in the order they were tried, and nothing else.
C7_ListOfURLs ==
    (/\ pc = "cd_done"
     /\ Len(candidate_sources) >= 2
     /\ Exhausted
     /\ \A i \in 1..Len(error_msgs) : NoOutput(error_msgs[i].e))
    => /\ Len(records) = 1
       /\ IsInstall(records[1])
       /\ records[1].status = "error"
       /\ records[1].message.text = "Failed to clone from all attempted sources: %s"
       /\ records[1].message.args = AttemptedURLs

\* three candidates with distinct URLs failed in silence
C7_Witness ==
    /\ pc = "cd_done"
    /\ Exhausted
    /\ Len(AttemptedURLs) >= 3
    /\ LastRecord.message.args = AttemptedURLs
    /\ \A i \in 1..Len(error_msgs) : NoOutput(error_msgs[i].e)

\* the text pairing each URL with the failure captured for it
RECURSIVE Pairs(_)
Pairs(urls) ==
    IF urls = <<>> THEN ""
    ELSE (IF Len(urls) > 1 THEN Pairs(SubSeq(urls, 1, Len(urls) - 1)) \o "\n- " ELSE "")
         \o urls[Len(urls)] \o "\n  " \o exc_str(captured(error_msgs, urls[Len(urls)]))

IsPairsRecord(r) ==
    /\ IsInstall(r)
    /\ r.status = "error"
    /\ r.message.text
         = "Failed to clone from any candidate source URL. Encountered errors per each url were:\n- %s"
    /\ r.message.args = <<Pairs(AttemptedURLs)>>

\* C8 as stated: when no transfer succeeded and a captured failure has
\* output, the one 'error' record pairs every attempted URL with the failure
\* captured for it, in the order the URLs were tried.
C8_AsStated ==
    (/\ pc = "cd_done"
     /\ attempts # <<>>
     /\ AllFailed
     /\ \E i \in 1..Len(error_msgs) : ~NoOutput(error_msgs[i].e))
    => /\ Len(records) = 1
       /\ IsPairsRecord(records[1])

\* C8 amended: the same for the runs in which no failure was the fatal
\* 'could not create work tree' failure, so that every candidate was tried.
C8_Pairs ==
    (/\ pc = "cd_done"
     /\ attempts # <<>>
     /\ AllFailed
     /\ \E i \in 1..Len(error_msgs) : ~NoOutput(error_msgs[i].e)
     /\ \A i \in 1..Len(error_msgs) :
           ~Contains(Lower(error_msgs[i].e.stderr), "could not create work tree"))
    => /\ Exhausted
       /\ Len(records) = 1
       /\ IsPairsRecord(records[1])

\* a silent failure and one with output, from two URLs, both in the message
C8_Witness ==
    /\ pc = "cd_done"
    /\ Exhausted
    /\ Len(AttemptedURLs) >= 2
    /\ NoOutput(error_msgs[1].e)
    /\ \E i \in 1..Len(error_msgs) : ~NoOutput(error_msgs[i].e)
    /\ Len(records) = 1
    /\ IsPairsRecord(records[1])

\* a transfer succeeded and left an installed dataset
Succeeded == attempts # <<>> /\ ~LastAttempt.failed /\ is_installed(dest)

\* C9: when clone_dataset returns after a success, its last record is the
\* 'ok' record, every record before it comes from a reconciliation step, and
\* the 'ok' record carries the winning candidate as its source; no 'ok'
\* record is on the stream before clone_dataset returns.
C9_OkLast ==
    /\ (pc = "cd_done" /\ Succeeded)
       => /\ records # <<>>
          /\ IsInstall(LastRecord)
          /\ LastRecord.status = "ok"
          /\ LastRecord.source = <<candidate_sources[Len(attempts)]>>
          /\ \A i \in 1..(Len(records) - 1) : records[i].action = "configure-sibling"
    /\ pc \notin {"cd_done", "done"}
       => \A i \in 1..Len(records) : records[i].status = "ok" => ~IsInstall(records[i])

\* an 'ok' record behind the records of the origin walk and of the store
C9_Witness ==
    /\ pc = "cd_done"
    /\ Succeeded
    /\ Len(records) >= 3
    /\ LastRecord.status = "ok"
    /\ LastRecord.source[1].kind = "ria"
    /\ Len(attempts) >= 2

\* C10: with a destination that is there and not empty, and is no installed
\* dataset or is one whose tracking URL matches no candidate, clone_dataset
\* emits one 'error' record and transfers, reconciles and changes nothing.
C10_Conflict ==
    (/\ pc = "cd_done"
     /\ Occupied
     /\ \/ ".git" \notin dest0.files
        \/ \A i \in 1..Len(candidate_sources) :
             /\ dest0.track # candidate_sources[i].giturl
             /\ get_local_file_url(dest0.track) # candidate_sources[i].giturl
             /\ PathStr(dest0.track) # expanduser(candidate_sources[i].giturl))
    => /\ Len(records) = 1
       /\ IsInstall(records[1])
       /\ records[1].status = "error"
       /\ records[1].message.text
            = "target path already exists and not empty, refuse to clone into target path"
       /\ Untouched

\* the refusal for an installed dataset that tracks another URL
C10_Witness ==
    /\ pc = "cd_done"
    /\ Occupied
    /\ ".git" \in dest0.files
    /\ dest0.track # ""
    /\ candidate_sources # <<>>
    /\ Len(records) = 1
    /\ records[1].status = "error"
    /\ Untouched

\* whether the reconciliation made the effect
Made(effect) == \E i \in 1..Len(recon) : recon[i] = effect

\* the position of the first such effect, 0 when it was not made
Position(effect) ==
    IF Made(effect) THEN CHOOSE i \in 1..Len(recon) :
                           recon[i] = effect /\ \A j \in 1..(i - 1) : recon[j] # effect
    ELSE 0

\* postclonecfg_annexdataset has gone through its tuning of the clone
Tuned == pc \in {"origins", "ria", "yield_ok", "cd_done", "done"} /\ knows_annex = Some(TRUE)

\* C11 as stated: after a successful transfer no failure of the HEAD repair
\* (a failing checkout included) or of the shared-permission
\* reinitialisation ends the operation: such a failure is swallowed and the
\* run goes on to its 'ok' record.
C11_AsStated ==
    Succeeded => (raised = None \/ raised[1].at \notin {"checkout", "init-shared"})

\* C12: under 'ephemeral', for a clone with annex traces, with symbolic links
\* available and an origin that is a local path, the reconciliation sets
\* remote.origin.annex-ignore, marks 'here' dead and, as the last thing it
\* does to .git/annex, makes it a symbolic link to <origin>/.git/annex.
C12_Ephemeral ==
    (/\ Tuned
     /\ reckless = Some("ephemeral")
     /\ symlink_capability = Some(TRUE)
     /\ RIKind(dest.track) = "path")
    => /\ Made(<<"config.set", "remote.origin.annex-ignore", "true">>)
       /\ Made(<<"dead", "here", "">>)
       /\ \E i \in 1..Len(recon) :
            /\ recon[i] = <<"symlink", ".git/annex",
                            (IF EndsWith(PathStr(dest.track), "/.git")
                             THEN PathStr(dest.track)
                             ELSE PathStr(dest.track) \o "/.git") \o "/annex">>
            /\ i > 1
            /\ recon[i - 1][1] \in {"rmtree", "unlink"}
            /\ recon[i - 1][2] = ".git/annex"
            /\ \A j \in (i + 1)..Len(recon) : recon[j][2] # ".git/annex"

\* an 'ok' clone of a local archive store under 'ephemeral', annex linked
C12_Witness ==
    /\ pc = "cd_done"
    /\ LastRecord.status = "ok"
    /\ reckless = Some("ephemeral")
    /\ symlink_capability = Some(TRUE)
    /\ dest.track = "/s/alias/a"
    /\ Made(<<"symlink", ".git/annex", "/s/alias/a/.git/annex">>)
    /\ Made(<<"dead", "here", "">>)

\* C13: for a clone with annex traces, under 'auto' or a 'shared-*' mode
\* 'here' is marked untrusted after the annex was initialised and is never
\* marked dead; under 'ephemeral' or no mode it is never marked untrusted.
\* Without annex traces neither is done.
C13_Untrust ==
    /\ (Tuned /\ reckless # None /\ (reckless[1] = "auto" \/ SubSeq(reckless[1], 1, 7) = "shared-"))
       => /\ Made(<<"untrust", "here", "">>)
          /\ Position(<<"annex-init", "", "">>) > 0
          /\ Position(<<"annex-init", "", "">>) < Position(<<"untrust", "here", "">>)
    /\ Made(<<"untrust", "here", "">>)
       => /\ reckless # None
          /\ reckless[1] \notin {"ephemeral", ""}
          /\ ~Made(<<"dead", "here", "">>)
    /\ Made(<<"dead", "here", "">>) => reckless = Some("ephemeral")

\* an 'ok' clone under a shared mode: reinitialised, then marked untrusted
C13_Witness ==
    /\ pc = "cd_done"
    /\ LastRecord.status = "ok"
    /\ reckless = Some("shared-group")
    /\ Made(<<"init-shared", "group", "">>)
    /\ Made(<<"untrust", "here", "">>)

\* C14 as stated: whenever a risk mode is set and the clone succeeds, the
\* mode is stored under datalad.clone.reckless in the local configuration.
C14_AsStated ==
    (pc = "cd_done" /\ Succeeded /\ LastRecord.status = "ok" /\ reckless # None)
    => Made(<<"config.set", "datalad.clone.reckless", reckless[1]>>)

\* C14 amended: the same for the clones that show annex traces; the stored
\* value is the mode itself and no other value is ever stored.
C14_Persisted ==
    /\ (Tuned /\ reckless # None)
       => Made(<<"config.set", "datalad.clone.reckless", reckless[1]>>)
    /\ \A i \in 1..Len(recon) :
         (recon[i][1] = "config.set" /\ recon[i][2] = "datalad.clone.reckless")
         => reckless = Some(recon[i][3])

\* an 'ok' clone into a parent dataset whose mode was inherited and stored
C14_Witness ==
    /\ pc = "cd_done"
    /\ LastRecord.status = "ok"
    /\ reckless_arg = None
    /\ reckless = Some("ephemeral")
    /\ Made(<<"config.set", "datalad.clone.reckless", "ephemeral">>)

\* the fragment of a specification and the dataset ID in it
Fragment(sp) == IF Contains(sp, "#") THEN SplitRest(sp, "#") ELSE ""

DsID(sp) == SplitFirst(Fragment(sp), "@")

\* a UUID: 8-4-4-4-12 hexadecimal digits in lower case, and nothing more
IsUUID(d) ==
    /\ Len(d) = 36
    /\ \A k \in 1..36 : IF k \in {9, 14, 19, 24} THEN SubSeq(d, k, k) = "-"
                        ELSE Contains("0123456789abcdef", SubSeq(d, k, k))

\* the URL of the store of an archive-store specification, 'ria+' dropped
StoreURL(sp) == SubSeq(sp, 5, Len(SplitFirst(sp, "#")))

\* the fetch URL of the dataset with the given trace in the store
InStore(sp, trace) ==
    StoreURL(sp) \o (IF EndsWith(StoreURL(sp), "/") THEN "" ELSE "/") \o trace

Decoded == pc = "decoded" /\ Len(candidate_sources) = 1

\* C15 as stated: a specification with an 'ria+' scheme whose dataset ID is
\* neither a well-formed UUID nor starts with '~' makes the decoding fail,
\* so that the operation aborts before any transfer.
C15_AsStated ==
    (/\ pc # "decode"
     /\ StartsWith(srcs[1], "ria+")
     /\ ~IsUUID(DsID(srcs[1]))
     /\ ~StartsWith(DsID(srcs[1]), "~"))
    => /\ pc = "raised"
       /\ raised # None
       /\ raised[1].exc = "ValueError"

\* C17: for an archive-store specification with fragment <UUID>[@<version>]
\* the fetch URL is the store URL with the trace <first 3 characters>/<rest
\* of the UUID> appended to its path, the default destination is the UUID, and
\* the version is the text after the first '@', absent without an '@'.
C17_UUIDTrace ==
    (pc # "decode" /\ StartsWith(srcs[1], "ria+") /\ IsUUID(DsID(srcs[1])))
    => /\ Decoded
       /\ candidate_sources[1].kind = "ria"
       /\ candidate_sources[1].source = srcs[1]
       /\ candidate_sources[1].giturl
            = InStore(srcs[1], SubSeq(DsID(srcs[1]), 1, 3) \o "/" \o SubSeq(DsID(srcs[1]), 4, 36))
       /\ candidate_sources[1].default_destpath = DsID(srcs[1])
       /\ candidate_sources[1].version
            = IF Contains(Fragment(srcs[1]), "@")
              THEN <<SubSeq(Fragment(srcs[1]), 38, Len(Fragment(srcs[1])))>>
              ELSE <<>>

\* the example of the specification
C17_Witness ==
    /\ Decoded
    /\ srcs[1] = "ria+http://store.datalad.org#76b6ca66-36b1-11ea-a2e6-f0d5bf7b5561@v1"
    /\ candidate_sources[1].giturl
         = "http://store.datalad.org/76b/6ca66-36b1-11ea-a2e6-f0d5bf7b5561"
    /\ candidate_sources[1].default_destpath = "76b6ca66-36b1-11ea-a2e6-f0d5bf7b5561"
    /\ candidate_sources[1].version = <<"v1">>

\* C18: for an archive-store specification with fragment ~<name> and no
\* version the fetch URL is the store URL with the trace alias/<name> appended
\* to its path, the default destination is <name>, and there is no version.
C18_Alias ==
    (/\ pc # "decode"
     /\ StartsWith(srcs[1], "ria+")
     /\ StartsWith(Fragment(srcs[1]), "~")
     /\ ~Contains(Fragment(srcs[1]), "@"))
    => /\ Decoded
       /\ candidate_sources[1].kind = "ria"
       /\ candidate_sources[1].giturl
            = InStore(srcs[1], "alias/" \o SubSeq(Fragment(srcs[1]), 2, Len(Fragment(srcs[1]))))
       /\ candidate_sources[1].default_destpath
            = SubSeq(Fragment(srcs[1]), 2, Len(Fragment(srcs[1])))
       /\ candidate_sources[1].version = <<>>

\* the example of the specification, in a store with a path
C18_Witness ==
    /\ Decoded
    /\ srcs[1] = "ria+ssh://h/p/#~hcp-openaccess"
    /\ candidate_sources[1].giturl = "ssh://h/p/alias/hcp-openaccess"
    /\ candidate_sources[1].default_destpath = "hcp-openaccess"
    /\ candidate_sources[1].version = <<>>

\* the specification after the rewrite rules of the configuration
Rewritten ==
    IF rules # {} /\ StartsWith(srcs[1], "ex:")
    THEN "https://example.com/" \o SubSeq(srcs[1], 4, Len(srcs[1]))
    ELSE srcs[1]

\* the name the segments of a path give: the last segment, the one before it
\* when the last is '.git', without a '.git' at its end
NameIn(path) ==
    strip_git_suffix(IF ~Contains(path, "/") THEN path
                     ELSE IF LastSegment(path) = ".git" THEN PrevSegment(path)
                     ELSE LastSegment(path))

IsPlainURL == /\ Decoded
              /\ candidate_sources[1].kind = "giturl"
              /\ RIKind(Rewritten) = "url"

\* C19 as stated: for a plain URL the fetch URL is the rewritten
\* specification and the default destination is named by the segments of the
\* URL's path as it is written, or by the host when the path is empty.
C19_AsStated ==
    IsPlainURL
    => /\ candidate_sources[1].giturl = Rewritten
       /\ candidate_sources[1].default_destpath
            = NameIn(IF RStripSlash(URLFields(Rewritten).path) = ""
                     THEN URLFields(Rewritten).hostname
                     ELSE RStripSlash(URLFields(Rewritten).path))

\* C19 amended: the same, where the segments are those of the path after its
\* percent escapes were decoded.
C19_PlainURL ==
    IsPlainURL
    => /\ candidate_sources[1].giturl = Rewritten
       /\ candidate_sources[1].source = srcs[1]
       /\ candidate_sources[1].default_destpath
            = NameIn(IF RStripSlash(URLFields(Rewritten).path) = ""
                     THEN URLFields(Rewritten).hostname
                     ELSE urlunquote(RStripSlash(URLFields(Rewritten).path)))

\* a repository directory at the end of a rewritten URL, and an escaped name
C19_Witness ==
    /\ IsPlainURL
    /\ \/ /\ srcs[1] = "ex:group/repo.git"
          /\ candidate_sources[1].giturl = "https://example.com/group/repo.git"
          /\ candidate_sources[1].default_destpath = "repo"
       \/ /\ srcs[1] = "https://example.com/my%20repo.git"
          /\ candidate_sources[1].default_destpath = "my repo"

\* the location a path or a local source resolves to
Resolved(p) == PathStr(expanduser(p))

NoSideEffect == records = <<>> /\ attempts = <<>> /\ dest = dest0 /\ recon = <<>>

\* C16 as stated: when source and path resolve to the same location, clone()
\* fails with a usage error before any side effect.
C16_AsStated ==
    (/\ entry = "clone"
     /\ pc # "start"
     /\ path_arg # None
     /\ Resolved(srcs[1]) = Resolved(path_arg[1]))
    => /\ pc = "raised"
       /\ raised # None
       /\ raised[1].exc = "ValueError"
       /\ NoSideEffect

\* C16 amended: when source and path are given as the identical value,
\* clone() fails with a usage error before any side effect: no record, no
\* transfer attempt, nothing written.
C16_Identical ==
    (entry = "clone" /\ pc # "start" /\ path_arg = Some(srcs[1]))
    => /\ pc = "raised"
       /\ raised = Some([exc |-> "ValueError", at |-> "source == path"])
       /\ NoSideEffect

C16_Witness ==
    /\ entry = "clone"
    /\ path_arg = Some("~/s")
    /\ srcs[1] = "~/s"
    /\ pc = "raised"
    /\ raised = Some([exc |-> "ValueError", at |-> "source == path"])

\* C20: in clone(), without an explicit risk mode and with a parent dataset
\* the parent's datalad.clone.reckless is the risk mode of the clone, an
\* explicit mode is never overridden by it, and the legacy value True is
\* 'auto'; the mode in use is the one the clone persists.
C20_Inherited ==
    (entry = "clone" /\ pc # "start")
    => /\ (reckless_arg = None /\ has_ds) => reckless = ds_reckless
       /\ (reckless_arg = None /\ ~has_ds) => reckless = None
       /\ (reckless_arg # None /\ reckless_arg # LegacyTrue) => reckless = reckless_arg
       /\ reckless_arg = LegacyTrue => reckless = Some("auto")
       /\ (Tuned /\ reckless_arg = None /\ has_ds /\ ds_reckless # None)
            => Made(<<"config.set", "datalad.clone.reckless", ds_reckless[1]>>)
       /\ (Tuned /\ reckless_arg = LegacyTrue)
            => Made(<<"config.set", "datalad.clone.reckless", "auto">>)

\* a clone into a parent configured for 'ephemeral', once with the legacy
\* value given and once with nothing given
C20_Witness ==
    /\ entry = "clone"
    /\ has_ds
    /\ ds_reckless = Some("ephemeral")
    /\ Tuned
    /\ \/ reckless_arg = LegacyTrue /\ reckless = Some("auto")
       \/ reckless_arg = None /\ reckless = Some("ephemeral")

\* no reconciliation step has run and nothing was configured
Unreconciled ==
    /\ recon = <<>>
    /\ knows_annex = None
    /\ symlink_capability = None
    /\ label = 0
    /\ \A i \in 1..Len(remotes) : remotes[i].name = "origin"
    /\ \A i \in 1..Len(records) : records[i].action # "configure-sibling"
    /\ pc \notin {"check_head", "shared", "annex", "origins", "ria", "yield_ok"}

\* C21: reconciliation runs only after a transfer that left an installed
\* dataset at the destination: with an 'error' or 'notneeded' record of the
\* operation on the stream no reconciliation step has run and no
\* configuration was written, and any step that ran follows such a transfer.
C21_OnlyAfterSuccess ==
    /\ (\E i \in InstallIdx : records[i].status \in {"error", "notneeded"})
         => Unreconciled
    /\ ~Unreconciled
         => /\ attempts # <<>>
            /\ ~LastAttempt.failed
            /\ dest.exists
            /\ ".git" \in dest.files

\* every candidate failed under a risk mode: an 'error' and nothing tuned
C21_Witness ==
    /\ pc = "cd_done"
    /\ Exhausted
    /\ LastRecord.status = "error"
    /\ reckless = Some("auto")
    /\ Unreconciled

\* C22: under a 'shared-<mode>' risk mode the repository is reinitialised
\* with --shared=<mode>, the text after 'shared-' as it is, before the
\* content-tracking extension is initialised; under 'auto' annex.hardlink is
\* set before that initialisation; neither is done after it.
C22_Ordering ==
    \A i \in 1..Len(recon) :
      recon[i][1] = "annex-init"
      => /\ (reckless # None /\ StartsWith(reckless[1], "shared-"))
              => \E j \in 1..(i - 1) :
                   recon[j] = <<"init-shared", SubSeq(reckless[1], 8, Len(reckless[1])), "">>
         /\ reckless = Some("auto")
              => \E j \in 1..(i - 1) : recon[j] = <<"config.set", "annex.hardlink", "true">>
         /\ \A j \in (i + 1)..Len(recon) :
              /\ recon[j][1] # "init-shared"
              /\ recon[j][2] # "annex.hardlink"

\* a clone under 'shared-group' with the extension initialised
C22_Witness ==
    /\ Tuned
    /\ reckless = Some("shared-group")
    /\ Made(<<"init-shared", "group", "">>)
    /\ Made(<<"annex-init", "", "">>)

\* a warning about the ephemeral mode was logged
EphemeralWarning ==
    \E i \in 1..Len(recon) :
      /\ recon[i][1] = "log.warning"
      /\ StartsWith(recon[i][2], "reckless=ephemeral mode: ")

\* C23: under 'ephemeral', when the file system cannot hold symbolic links or
\* the URL of origin is not local, .git/annex is neither removed nor linked, a
\* warning is logged, 'here' is marked dead and origin is left out of content
\* transfer all the same, and the operation goes on to its 'ok' record.
C23_NoLink ==
    (/\ Tuned
     /\ reckless = Some("ephemeral")
     /\ \/ symlink_capability = Some(FALSE)
        \/ RIKind(dest.track) \notin {"path", "url"}
        \/ RIKind(dest.track) = "url" /\ URLFields(dest.track).scheme # "file")
    => /\ \A i \in 1..Len(recon) : recon[i][2] # ".git/annex"
       /\ EphemeralWarning
       /\ Made(<<"dead", "here", "">>)
       /\ Made(<<"config.set", "remote.origin.annex-ignore", "true">>)
       /\ pc \in {"cd_done", "done"}
            => \E i \in InstallIdx : records[i].status = "ok"

\* an 'ok' clone of a local origin on a file system without symbolic links
C23_Witness ==
    /\ pc = "cd_done"
    /\ knows_annex = Some(TRUE)
    /\ reckless = Some("ephemeral")
    /\ symlink_capability = Some(FALSE)
    /\ RIKind(dest.track) = "path"
    /\ EphemeralWarning
    /\ LastRecord.status = "ok"

\* C24: the content-tracking extension is initialised, and 'here' untrusted
\* or marked dead, only in a clone that shows traces of the extension; in a
\* plain clone none of the three happens, whatever the risk mode.
C24_OnlyWithTraces ==
    /\ (\E i \in 1..Len(recon) : recon[i][1] \in {"annex-init", "untrust", "dead"})
         => knows_annex = Some(TRUE)
    /\ knows_annex = Some(FALSE)
         => \A i \in 1..Len(recon) :
              /\ recon[i][1] \notin {"annex-init", "untrust", "dead", "symlink", "rmtree"}
              /\ recon[i][2] \notin {"annex.hardlink", "datalad.clone.reckless"}

\* an 'ok' plain clone under a risk mode
C24_Witness ==
    /\ pc = "cd_done"
    /\ knows_annex = Some(FALSE)
    /\ reckless \in {Some("ephemeral"), Some("auto")}
    /\ LastRecord.status = "ok"

\* the names of the ORA special remotes the clone knows of
OraNames == {r.name : r \in {x \in ria.special_remotes : x.externaltype = "ora"}}

\* postclonecfg_ria ran with no ORA special remote enabled and one known of
LookedUp == ria.ran /\ ria.enabled \cap OraNames = {} /\ OraNames # {}

Enablings == {i \in 1..Len(recon) : recon[i][1] = "enable_remote"}

Dependencies ==
    {i \in 1..Len(recon) : /\ recon[i][1] = "siblings.configure"
                           /\ StartsWith(recon[i][3], "publish_depends=")}

TemplateKey == "datalad.get.subdataset-source-candidate-200origin"

TemplateWrites ==
    {i \in 1..Len(recon) : recon[i][1] = "config.set" /\ recon[i][2] = TemplateKey}

\* the operation is past the archive-store reconciliation, however it ended
PastRia ==
    \/ \E i \in InstallIdx : records[i].status = "ok"
    \/ pc = "yield_ok"
    \/ raised # None /\ raised[1].at = "siblings-configure"

\* C26: the template key for the sources of subdatasets is written if and
\* only if the winning candidate is an archive store; its value is the
\* specification up to its first '#', then '#{id}'; annex-ignore of origin is
\* set with it, and both are written however the discovery of the special
\* remote ends.
C26_Template ==
    /\ \A i \in TemplateWrites :
         /\ source # None
         /\ source[1].kind = "ria"
         /\ recon[i][3] = SubSeq(source[1].source, 1, Find(source[1].source, "#") - 1) \o "#{id}"
         /\ i > 1
         /\ recon[i - 1] = <<"config.set", "remote.origin.annex-ignore", "true">>
    /\ Cardinality(TemplateWrites) <= 1
    /\ PastRia => (TemplateWrites # {} <=> source[1].kind = "ria")

\* the dependency of origin could not be configured: the key is there
C26_Witness ==
    /\ pc = "raised"
    /\ raised[1].at = "siblings-configure"
    /\ Made(<<"config.set", TemplateKey, "ria+file:///s#{id}">>)

\* C27: a special remote is enabled only when the identifier parsed from the
\* config of the store is that of a special remote the clone knows of; then
\* that remote and no other is enabled, with the specification up to its
\* '#' as its URL; without an identifier, or with one the clone does not
\* know, none is enabled.
C27_EnableMatching ==
    /\ Cardinality(Enablings) <= 1
    /\ \A i \in Enablings :
         /\ ria.org_uuid # ""
         /\ \E r \in ria.special_remotes :
              /\ r.uuid = ria.org_uuid
              /\ recon[i][2] = r.name
         /\ recon[i][3] = "url=" \o SubSeq(source[1].source, 1, Find(source[1].source, "#") - 1)
    /\ (LookedUp /\ \E r \in ria.special_remotes : r.uuid = ria.org_uuid) => Enablings # {}
    /\ (ria.ran /\ \A r \in ria.special_remotes : r.uuid # ria.org_uuid) => Enablings = {}

\* the identifier in the config of an http store is that of a known remote
C27_Witness ==
    /\ ria.org_uuid = "u1"
    /\ Made(<<"enable_remote", "store-storage", "url=ria+http://store.datalad.org">>)
    /\ pc = "cd_done"

\* the enabling succeeded
Enabled(n) ==
    /\ \E i \in Enablings : recon[i][2] = n
    /\ \A i \in 1..Len(recon) :
         recon[i][1] = "log.debug" => ~StartsWith(recon[i][2], "Failed to reconfigure")

\* the ORA special remotes that are siblings when the dependency is decided
OraKnown == {n \in OraNames : n \in ria.enabled \/ Enabled(n)}

\* C28: with exactly one ORA special remote known as a sibling after the
\* enabling, origin gets a publication dependency on it; with more than one
\* there is no dependency and a warning names them all; with none, as after
\* a failed enabling, there is no dependency.
C28_PublishDepends ==
    ria.ran
    => /\ Cardinality(OraKnown) = 1
            => /\ Cardinality(Dependencies) = 1
               /\ \A i \in Dependencies :
                    /\ recon[i][2] = "origin"
                    /\ \E n \in OraKnown : recon[i][3] = "publish_depends=" \o n
       /\ Cardinality(OraKnown) > 1
            => /\ Dependencies = {}
               /\ \E i \in 1..Len(recon) :
                    /\ recon[i][1] = "log.warning"
                    /\ StartsWith(recon[i][2], "Found multiple ORA remotes")
                    /\ \A n \in OraKnown : Contains(recon[i][3], n)
       /\ OraKnown = {} => Dependencies = {}

\* the remote was enabled from the config of the store, and origin depends on it
C28_Witness ==
    /\ pc = "cd_done"
    /\ Enabled("store-storage")
    /\ Made(<<"siblings.configure", "origin", "publish_depends=store-storage">>)

\* C29 as stated: in the repair of an unborn HEAD the entries for git-annex
\* and for HEAD are skipped, so that neither is ever checked out, and at most
\* one branch is checked out, as a local branch of its own name.
C29_AsStated ==
    /\ Cardinality({i \in 1..Len(recon) : recon[i][1] = "checkout"}) <= 1
    /\ \A i \in 1..Len(recon) :
         recon[i][1] = "checkout"
         => /\ recon[i][2] \notin {"origin/git-annex", "origin/HEAD"}
            /\ recon[i][2] = "origin/" \o recon[i][3]

\* the remotes configure_origins registered
Registered == {i \in 1..Len(remotes) : remotes[i].name # "origin"}

KnownURLs == {remotes[i].url : i \in 1..Len(remotes)}

\* the origin URL the walk followed in the step that went one level deeper
Followed == chain'[Len(chain')]

WentDeeper == pc = "origins" /\ pc' = "origins"

\* C31 as stated: the walk goes no deeper when the probed dataset has no
\* origin URL, when the URL is not a local path, or, below the first level,
\* when the URL is a known remote URL of the target already.
C31_AsStated ==
    [][WentDeeper => /\ Followed # ""
                     /\ RIKind(Followed) = "path"
                     /\ (label > 1 => Followed \notin KnownURLs)]_vars

\* C31, amended: the walk goes no deeper when the probed dataset has no
\* origin URL, when the URL is not a local path or when the inheritance is
\* off, and a walk that stops registers nothing; an origin URL that is a
\* known remote URL of the target is not registered, and the dataset it names
\* is inspected at the next depth all the same.
C31_Stops ==
    [][/\ WentDeeper => /\ Followed # ""
                        /\ RIKind(Followed) = "path"
                        /\ inherit
                        /\ label' = label + 1
                        /\ chain' = Append(chain, Followed)
                        /\ Followed \in KnownURLs
                             => remotes' = remotes /\ records' = records
       /\ (pc = "origins" /\ pc' # "origins")
            => /\ pc' = "ria"
               /\ UNCHANGED <<chain, label, remotes, records, recon>>]_vars

\* at depth 2 the origin URL was that of the direct origin: nothing was
\* registered and the walk is at depth 3
C31_Witness ==
    /\ pc = "origins"
    /\ label = 3
    /\ Len(chain) = 2
    /\ chain[2] \in {remotes[i].url : i \in 1..Len(remotes)}
    /\ Len(remotes) = 1

\* the walk has come to a dataset a second time
Cyclic == \E j, k \in 1..Len(chain) : j < k /\ chain[j] = chain[k]

\* C32: with the inheritance on and no dataset's configuration changing, a
\* walk along a chain of local-path origins that ends comes to an end, and has
\* then been at every dataset of the chain once; a walk that has come to a
\* dataset a second time has nothing to stop it: the walk stops at no origin
\* URL that is a local path, were it followed before, every step from then
\* on goes one level deeper, the walk never leaves configure_origins, and the
\* 'ok' record is never emitted.
C32_Walk ==
    /\ <>(pc # "origins" \/ Cyclic)
    /\ [](pc # "origins" => ~Cyclic)
    /\ [](Cyclic => \A i \in InstallIdx : records[i].status # "ok")
    /\ [][Cyclic => pc' = "origins" /\ label' = label + 1
                    /\ Len(chain') = Len(chain) + 1]_vars
    /\ [][(pc = "origins" /\ pc' # "origins" /\ inherit)
            => probed_url' = "" \/ RIKind(probed_url') # "path"]_vars

\* two datasets that are the origin of each other, each walked through twice
C32_Witness ==
    /\ inherit
    /\ pc = "origins"
    /\ Len(chain) = 4
    /\ chain[1] # chain[2]
    /\ chain[3] = chain[1]
    /\ chain[4] = chain[2]
    /\ label = 5

\* the candidates are there: the specifications were decoded and expanded
Expanded == pc \notin {"start", "clone", "clone_dataset", "decode"} /\ raised = None

\* the decoded descriptor of the i-th specification
Descriptor(i) == decode_source_spec(rules, srcs[i])

\* C33: every candidate is the decoded descriptor of one of the source
\* specifications with another fetch URL at most, every specification has a
\* candidate, and the candidates of an earlier specification precede those of
\* a later one; the n-th attempt is made against the n-th candidate's fetch
\* URL, with the candidate's version as the branch option when the candidate
\* has a version that is not empty, and with no branch option otherwise.
C33_Candidates ==
    /\ Expanded =>
         \E f \in [1..Len(candidate_sources) -> 1..Len(srcs)] :
           /\ \A i \in 1..Len(srcs) : \E n \in 1..Len(candidate_sources) : f[n] = i
           /\ \A m, n \in 1..Len(candidate_sources) : m < n => f[m] <= f[n]
           /\ \A n \in 1..Len(candidate_sources) :
                candidate_sources[n]
                  = [Descriptor(f[n]) EXCEPT !.giturl = candidate_sources[n].giturl]
    /\ Len(attempts) <= Len(candidate_sources)
    /\ \A n \in 1..Len(attempts) :
         /\ attempts[n].url = candidate_sources[n].giturl
         /\ attempts[n].branch
              = IF candidate_sources[n].version \in {None, Some("")} THEN None
                ELSE candidate_sources[n].version

\* a URL that expands to two candidates, before one with a version: three
\* attempts, the first two without a branch option, the third with one
C33_Witness ==
    /\ srcs = <<"http://h/r", "ria+file:///s#~a@v">>
    /\ Len(candidate_sources) = 3
    /\ Len(attempts) = 3
    /\ attempts[1].branch = None
    /\ attempts[2].url = "http://h/r/.git"
    /\ attempts[3].branch = Some("v")

\* C34: after a transfer from a candidate with a version nothing is checked
\* out and no checkout fails, whatever HEAD points at: the repair of an
\* unborn HEAD is left to the clones from candidates without a version.
C34_NoRepairWithVersion ==
    (source # None /\ source[1].version \notin {None, Some("")})
    => /\ \A i \in 1..Len(recon) : recon[i][1] # "checkout"
       /\ raised # Some([exc |-> "CommandError", at |-> "checkout"])

\* a clone from a candidate with a version that went through the whole
\* reconciliation
C34_Witness ==
    /\ pc = "cd_done"
    /\ Succeeded
    /\ source[1].version = Some("v")
    /\ LastRecord.status = "ok"
    /\ recon # <<>>

\* the effects of the steps that do not depend on the extension: the
\* repair of HEAD, the reinitialisation for shared access and, for a clone
\* from an archive store, the two keys postclonecfg_ria writes
Untuned(effect) ==
    \/ effect[1] \in {"checkout", "init-shared"}
    \/ /\ source # None /\ source[1].kind = "ria"
       /\ effect[1] = "config.set"
       /\ effect[2] \in {"remote.origin.annex-ignore",
                         "datalad.get.subdataset-source-candidate-200origin"}

\* C35: in a clone without traces of the content-tracking extension no
\* ancestor origin is looked for or registered, no risk mode is persisted and
\* no special remote is looked at, enabled or depended on; the effects of the
\* reconciliation are those of the HEAD repair, of the reinitialisation for
\* shared access and, for an archive store, of the two keys written for it.
C35_NoTraces ==
    knows_annex = Some(FALSE)
    => /\ Registered = {} /\ chain = <<>> /\ label = 0 /\ probed_url = ""
       /\ \A i \in 1..Len(records) : records[i].action # "configure-sibling"
       /\ \A i \in 1..Len(recon) : Untuned(recon[i])
       /\ ria.special_remotes = {} /\ ria.fetch = "none"

\* a clone from an archive store without traces, under a risk mode for shared
\* access: the reinitialisation and the two keys of the store, then 'ok'
C35_Witness ==
    /\ knows_annex = Some(FALSE)
    /\ pc = "cd_done"
    /\ LastRecord.status = "ok"
    /\ reckless = Some("shared-group")
    /\ ria.ran
    /\ \E i \in 1..Len(recon) : recon[i][1] = "init-shared"
    /\ \E i \in 1..Len(recon) : recon[i][2] = "remote.origin.annex-ignore"

\* the last transfer returned without a failure and the destination is not
\* an installed dataset
Awkward == attempts # <<>> /\ ~LastAttempt.failed /\ ".git" \notin dest.files

\* C36: when the last transfer returned without a failure and the
\* destination is not an installed dataset, no reconciliation step runs and no
\* 'ok' record is emitted; clone_dataset returns with one record, an 'error'
\* whose source is the candidate of that transfer, which exists, and whose
\* message names that candidate's URL when no transfer failed before.
C36_Awkward ==
    Awkward
    => /\ recon = <<>> /\ knows_annex = None /\ ~ria.ran /\ chain = <<>>
       /\ raised = None
       /\ \A i \in InstallIdx : records[i].status = "error"
       /\ candidate_sources # <<>>
       /\ pc \in {"cd_done", "done"}
            => /\ Cardinality(InstallIdx) = 1
               /\ \A i \in InstallIdx :
                    /\ records[i].source = Some(candidate_sources[Len(attempts)])
                    /\ records[i].source[1].giturl = LastAttempt.url
                    /\ Len(attempts) = 1
                         => records[i].message.args = <<LastAttempt.url>>

\* the second candidate's transfer returned after the first one's failed, and
\* left no repository: one 'error' record
C36_Witness ==
    /\ Awkward
    /\ pc = "cd_done"
    /\ Len(attempts) = 2
    /\ attempts[1].failed
    /\ Len(records) = 1
    /\ LastRecord.status = "error"

\* the reads of the config file of the store
Fetches ==
    {i \in 1..Len(recon) :
       recon[i][1] \in {"requests.get", "SSHRemoteIO.read_file", "LocalIO.read_file"}}

\* the text of the URL before its first ':' is one of the three schemes
KnownScheme(url) ==
    StartsWith(url, "http:") \/ StartsWith(url, "ssh:") \/ StartsWith(url, "file:")

\* C37: in the discovery of the special remote of an archive store the
\* config of the store is read, once, exactly when the scheme of the winning
\* fetch URL is 'http', 'ssh' or 'file'; with any other scheme, 'https' among
\* them, nothing is read, no special remote is enabled, origin gets no
\* publication dependency, and the operation goes on to its 'ok' record.
C37_Schemes ==
    ria.ran
    => /\ Fetches # {} => LookedUp /\ KnownScheme(source[1].giturl)
       /\ (LookedUp /\ KnownScheme(source[1].giturl)) => Cardinality(Fetches) = 1
       /\ (LookedUp /\ ~KnownScheme(source[1].giturl))
            => /\ Fetches = {}
               /\ ria.fetch = "none"
               /\ ria.config_content = "" /\ ria.org_uuid = ""
               /\ Enablings = {}
               /\ Dependencies = {}
               /\ raised = None
               /\ \E i \in 1..Len(recon) :
                    recon[i][1] = "log.debug" /\ StartsWith(recon[i][2], "Unknown URL-Scheme")
               /\ pc \in {"yield_ok", "cd_done", "done"}
               /\ pc \in {"cd_done", "done"} => \E i \in InstallIdx : records[i].status = "ok"

\* an 'ok' clone from a store over https that knows of an ORA special remote
C37_Witness ==
    /\ pc = "cd_done"
    /\ LookedUp
    /\ StartsWith(source[1].giturl, "https:")
    /\ Fetches = {}
    /\ LastRecord.status = "ok"

\* the ORA special remotes that were siblings when postclonecfg_ria began
OraSiblings == ria.enabled \cap OraNames

\* C38: when an ORA special remote is a sibling already as the archive-store
\* reconciliation begins, or no special remote of the clone is of that type,
\* nothing is looked up: the config of the store is not read and no remote is
\* enabled; origin gets its publication dependency all the same when exactly
\* one ORA special remote is a sibling, and none when there is no such sibling.
C38_DiscoverySkipped ==
    (ria.ran /\ (OraSiblings # {} \/ OraNames = {}))
    => /\ Fetches = {}
       /\ ria.fetch = "none" /\ ria.config_content = "" /\ ria.org_uuid = ""
       /\ Enablings = {}
       /\ \A i \in 1..Len(recon) : recon[i][1] # "log.debug"
       /\ Cardinality(OraSiblings) = 1
            => /\ Cardinality(Dependencies) = 1
               /\ \A i \in Dependencies :
                    /\ recon[i][2] = "origin"
                    /\ \E n \in OraSiblings : recon[i][3] = "publish_depends=" \o n
       /\ OraSiblings = {} => Dependencies = {}

\* the one ORA special remote was enabled by the clone itself: nothing is
\* read, and origin depends on it
C38_Witness ==
    /\ pc = "cd_done"
    /\ ria.ran
    /\ OraSiblings = {"store-storage"}
    /\ Fetches = {}
    /\ Made(<<"siblings.configure", "origin", "publish_depends=store-storage">>)
    /\ LastRecord.status = "ok"

\* the effects a step added to the reconciliation
Added == {i \in (Len(recon) + 1)..Len(recon') : TRUE}

\* C39: the linking of the ephemeral mode removes nothing through a link:
\* .git/annex of the clone is unlinked when it is a link, as it is after an
\* earlier linking, and removed recursively only when it is a directory;
\* every removal is that of .git/annex of the clone, the link made points at
\* the annex of origin, and the annex of origin is as it was, however often
\* the reconciliation is applied.
C39_NoRemovalThroughLink ==
    /\ [](annex_dir.origin_annex = "intact")
    /\ [](\A i \in 1..Len(recon) :
            /\ recon[i][1] \in {"rmtree", "unlink"}
                 => /\ recon[i][2] = ".git/annex"
                    /\ i < Len(recon)
                    /\ recon[i + 1][1] = "symlink"
            /\ recon[i][1] = "symlink"
                 => /\ recon[i][2] = ".git/annex"
                    /\ EndsWith(recon[i][3], "/.git/annex")
                    /\ recon[i - 1][1] \in {"rmtree", "unlink"})
    /\ [][/\ annex_dir.kind = "link" => \A i \in Added : recon'[i][1] # "rmtree"
          /\ \A i \in Added : recon'[i][1] \in {"rmtree", "unlink"} => annex_dir'.kind = "link"
          /\ (annex_dir.kind = "link" /\ \E i \in Added : recon'[i][1] = "symlink")
               => \E i \in Added : recon'[i][1] = "unlink"]_vars

\* the reconciliation of an ephemeral clone was applied twice: a directory
\* was removed and linked, then the link was unlinked and made again
C39_Witness ==
    /\ applications = 2
    /\ annex_dir = [kind |-> "link", origin_annex |-> "intact"]
    /\ \E i, j \in 1..Len(recon) :
         i < j /\ recon[i][1] = "rmtree" /\ recon[j][1] = "unlink"
    /\ Cardinality({i \in 1..Len(recon) : recon[i][1] = "symlink"}) = 2

====
